---- MODULE Spec2Model ----
(***************************************************************************)
(* A model of the OctaBuild build engine (src/main.cc, lines 1-729, and    *)
(* the thread pool of src/unnamed/part_009).                               *)
(*                                                                         *)
(* Strings are sequences of one-character strings, so that the `%`         *)
(* pattern code can be computed as the source computes it.                 *)
(***************************************************************************)
EXTENDS Integers, Sequences, FiniteSets, TLC

VARIABLES
    rules,      \* ObState::rules: the registered rules, in declaration order
    frTarget,   \* find_rules: the target being resolved (resolver run)
    fr,         \* find_rules: the locals of the scan loop (resolver run)
    goal,       \* main: the targets still to be run: those the definition
                \* file passes to `invoke`, then the one of the command line
    files,      \* the filesystem: name -> mtime, 0 for a file that is absent,
                \* -1 for a name that is no regular file
    now,        \* the filesystem clock
    cache,      \* ObState::cache: target -> the rlist vector (and capacity);
                \* hist is history: the outcome of each resolution of the target
    counters,   \* ObState::counters: the stack of barriers (ids into ctrs)
    ctrs,       \* every RuleCounter constructed so far
    stack,      \* the call stack of the evaluator (main) thread
    aliases,    \* the cubescript identifiers target, source and sources: for
                \* an alias the values it was given, the current one last
    running,    \* thread_pool::running
    tasks,      \* thread_pool::tasks, the head of the task list (0: nullptr)
    last_task,  \* thread_pool::last_task (0: nullptr)
    heap,       \* every task node allocated so far
    workers,    \* the position of each pool thread in thread_pool::run
    deqSeq      \* history: the task nodes in the order they were dequeued

resolveVars == <<frTarget, fr>>
poolVars == <<running, tasks, last_task, heap, workers, deqSeq>>
execVars == <<goal, files, now, cache, counters, ctrs, stack, aliases>>
vars == <<rules, resolveVars, execVars, poolVars>>

(***************************************************************************)
(* Bounds                                                                  *)
(***************************************************************************)
MaxRules == 3
\* the longest pattern and the longest capture of the substitution run
MaxPat == 3
MaxSub == 2
\* the longest name of the comparison run
MaxExp == 4
\* -j: the number of pool threads thread_pool::init creates
Jobs == 2
\* the number of frames the evaluator's call stack holds
MaxDepth == 16
\* the number of tasks whose way through the pool is followed
MaxTasks == 3
\* the longest pattern of the glob run and the most entries of a directory
MaxGlob == 3
MaxEntries == 2
\* the longest entry name of the matching run
MaxName == 3

(***************************************************************************)
(* String helpers (ostd::find, slice_until on string_range)                *)
(***************************************************************************)
RECURSIVE FindFrom(_, _, _)
FindFrom(s, c, i) ==
    IF i > Len(s) THEN 0
    ELSE IF s[i] = c THEN i
    ELSE FindFrom(s, c, i + 1)

\* ostd::find(s, c): position of the first c in s, 0 when the range is empty
Find(s, c) == FindFrom(s, c, 1)

\* ob_compare_subst without `expanded.pop_back_n(rep.size())`
ob_compare_subst_keeps_post(expanded, toexpand) ==
    LET rep == Find(toexpand, "%") IN
    IF rep = 0 \/ Len(expanded) < rep THEN << >>
    ELSE SubSeq(expanded, rep, Len(expanded))

\* this lets us properly match % patterns in target names
\* (the empty sequence stands for both nullptr and an empty range: the
\* callers only test sub.empty())
ob_compare_subst(expanded, toexpand) ==
    LET rep == Find(toexpand, "%") IN
    IF rep = 0 THEN << >>
    ELSE
        LET fp   == SubSeq(toexpand, 1, rep - 1)
            post == SubSeq(toexpand, rep + 1, Len(toexpand))
        IN
        IF Len(expanded) <= Len(fp) THEN << >>
        ELSE IF SubSeq(expanded, 1, Len(fp)) # fp THEN << >>
        ELSE
            LET e2 == SubSeq(expanded, Len(fp) + 1, Len(expanded)) IN
            IF post = << >> THEN e2
            ELSE IF Len(e2) <= Len(post) THEN << >>
            ELSE IF SubSeq(e2, Len(e2) - Len(post) + 1, Len(e2)) # post
                THEN << >>
            ELSE SubSeq(e2, 1, Len(e2) - Len(post))

(***************************************************************************)
(* Rules and SubRules                                                      *)
(***************************************************************************)
\* struct Rule: func is 0 for an empty body, otherwise the id of the recipe
Rule(t, d, f, a) == [target |-> t, deps |-> d, func |-> f, action |-> a]

\* struct SubRule: rule is the index of the rule in `rules`
SubRule(s, r) == [sub |-> s, rule |-> r]

\* std::vector growth on emplace_back when size() = capacity()
\* (libstdc++ and libc++ both double, starting from 1)
VectorGrow(cap) == IF cap = 0 THEN 1 ELSE 2 * cap

(***************************************************************************)
(* find_rules: the locals of the scan.                                     *)
(*   i       index of the rule the loop is at                              *)
(*   rlist   the result vector, cap its capacity                           *)
(*   frule   0 for nullptr, else the slot of rlist that frule points at    *)
(*   frvalid FALSE once the vector has reallocated since frule was taken:  *)
(*           frule then points into the freed buffer                       *)
(*   exact   the exact flag                                                *)
(*   ret     0 while scanning, 1 after "redefinition of rule"              *)
(***************************************************************************)
FrStart(rl, cap) ==
    [i |-> 1, rlist |-> rl, cap |-> cap, frule |-> 0, frvalid |-> TRUE,
     exact |-> FALSE, ret |-> 0]

\* rlist.emplace_back(): reallocates when size() = capacity(), which
\* invalidates frule
EmplaceBack(st, sr) ==
    LET realloc == Len(st.rlist) = st.cap IN
    [st EXCEPT !.rlist = Append(st.rlist, sr),
               !.cap = IF realloc THEN VectorGrow(st.cap) ELSE st.cap,
               !.frvalid = st.frvalid /\ ~realloc]

\* *frule = rlist.back(); rlist.pop_back();
\* a write through a dangling frule lands in the freed buffer and is lost
ReplaceFrule(st) ==
    LET n == Len(st.rlist)
        written == IF st.frvalid
                   THEN [st.rlist EXCEPT ![st.frule] = st.rlist[n]]
                   ELSE st.rlist
    IN [st EXCEPT !.rlist = SubSeq(written, 1, n - 1)]

\* the values frule->sub.size() can yield: the slot's value while frule is
\* valid, anything once it dangles (the freed chunk may keep the old bytes
\* or be overwritten by the allocator)
FruleSubSizes(st, target) ==
    IF st.frvalid THEN {Len(st.rlist[st.frule].sub)}
    ELSE 0 .. (Len(target) + 1)

\* one iteration of `for (auto &rule: rules)` of find_rules, for rule ri:
\* the set of states the iteration can end in
FindRulesIter(st, target, rs) ==
    LET ri   == st.i
        rule == rs[ri]
        next(s) == [s EXCEPT !.i = ri + 1]
    IN
    IF target = rule.target THEN
        LET s1 == EmplaceBack(st, SubRule(<< >>, ri)) IN
        IF rule.func # 0 THEN
            IF s1.frule # 0 /\ s1.exact THEN
                {[s1 EXCEPT !.ret = 1]}
            ELSE IF s1.frule = 0 THEN
                {next([s1 EXCEPT !.frule = Len(s1.rlist), !.frvalid = TRUE,
                                 !.exact = TRUE])}
            ELSE
                {next([ReplaceFrule(s1) EXCEPT !.exact = TRUE])}
        ELSE {next(s1)}
    ELSE IF st.exact \/ rule.func = 0 THEN {next(st)}
    ELSE
        LET sub == ob_compare_subst(target, rule.target) IN
        IF sub # << >> THEN
            LET s1 == EmplaceBack(st, SubRule(sub, ri)) IN
            IF s1.frule # 0 THEN
                { IF Len(sub) = fsz THEN [s1 EXCEPT !.ret = 1]
                  ELSE IF Len(sub) < fsz THEN next(ReplaceFrule(s1))
                  ELSE next(s1)
                  : fsz \in FruleSubSizes(s1, target) }
            ELSE {next([s1 EXCEPT !.frule = Len(s1.rlist),
                                  !.frvalid = TRUE])}
        ELSE {next(st)}

FrDone(st, rs) == st.ret # 0 \/ st.i > Len(rs)

\* the whole loop: every state find_rules can return in
RECURSIVE FindRulesLoop(_, _, _)
FindRulesLoop(st, target, rs) ==
    IF FrDone(st, rs) THEN {st}
    ELSE UNION { FindRulesLoop(s2, target, rs)
                 : s2 \in FindRulesIter(st, target, rs) }

\* find_rules(target, rlist): a non-empty rlist (a cache entry) is returned
\* as it is
find_rules(target, rl, cap, rs) ==
    IF rl # << >> THEN {[FrStart(rl, cap) EXCEPT !.i = Len(rs) + 1]}
    ELSE FindRulesLoop(FrStart(rl, cap), target, rs)

\* exec_func: the first SubRule of the list whose rule has a recipe
\* (0 when there is none)
RECURSIVE FirstFunc(_, _, _)
FirstFunc(rl, rs, k) ==
    IF k > Len(rl) THEN 0
    ELSE IF rs[rl[k].rule].func # 0 THEN k
    ELSE FirstFunc(rl, rs, k + 1)


(***************************************************************************)
(* Names, recipes and the filesystem                                       *)
(***************************************************************************)
Tt == <<"t">>
Pp == <<"p">>
Xx == <<"x">>
Ao == <<"a", "o">>
Bo == <<"b", "o">>
Ac == <<"a", "c">>
Bc == <<"b", "c">>
PatO == <<"%", "o">>
PatC == <<"%", "c">>

Names == {Tt, Pp, Xx, Ao, Bo, Ac, Bc}

\* A recipe body: `shells` shell commands, each building $target and
\* exiting with one of `codes`; the body's integer result is `ret`.  A body
\* with `invoke` set calls the invoke command on that target first.
Recipe(n, c, r) ==
    [shells |-> n, codes |-> c, ret |-> r, invoke |-> << >>]

Recipes ==
    <<  Recipe(1, {0}, 0),          \* 1: one command that succeeds
        Recipe(2, {0, 1, 2}, 0),    \* 2: two commands that may fail
        Recipe(1, {0, 1}, 0),       \* 3: one command that may fail
        Recipe(1, {0}, 1),          \* 4: a body whose result is non-zero
        Recipe(3, {0}, 0),          \* 5: three commands that succeed
        [Recipe(1, {0}, 0) EXCEPT !.invoke = Pp],   \* 6: invoke p; a command
        Recipe(2, {0, 1}, 0)        \* 7: two commands that succeed or fail
    >>

\* The file checks read the filesystem fs (name -> mtime, 0: no such file).
\* static bool ob_check_file(string_range fname)
ob_check_file(fs, fname) == fs[fname] # 0

\* ob_check_ts, the lambda get_ts: a file table entry is 0 for no file, -1
\* for something that exists and is not a regular file, and the mtime of a
\* regular file otherwise
get_ts(fs, fname) == IF fs[fname] < 0 THEN 0 ELSE fs[fname]

ob_check_tsNotStrict(fs, tname, deps) ==
    LET tts == get_ts(fs, tname) IN
    IF tts = 0 THEN TRUE
    ELSE \E d \in 1 .. Len(deps) :
            get_ts(fs, deps[d]) # 0 /\ tts <= get_ts(fs, deps[d])

\* static bool ob_check_ts(tname, deps)
ob_check_ts(fs, tname, deps) ==
    LET tts == get_ts(fs, tname) IN
    IF tts = 0 THEN TRUE
    ELSE \E d \in 1 .. Len(deps) :
            get_ts(fs, deps[d]) # 0 /\ tts < get_ts(fs, deps[d])

\* static bool ob_check_exec(tname, deps)
ob_check_exec(fs, tname, deps) ==
    IF ~ob_check_file(fs, tname) THEN TRUE
    ELSE IF \E d \in 1 .. Len(deps) : ~ob_check_file(fs, deps[d]) THEN TRUE
    ELSE ob_check_ts(fs, tname, deps)

\* exec_list: the dependency with the capture spliced in place of its %
SubstDep(dep, sub) ==
    LET lp == Find(dep, "%") IN
    IF lp # 0
    THEN SubSeq(dep, 1, lp - 1) \o sub \o SubSeq(dep, lp + 1, Len(dep))
    ELSE dep

(***************************************************************************)
(* The evaluator thread: a stack of frames, the top one last.              *)
(* Of a frame's fields, bar (the barrier exec_func's wait_result owned),   *)
(* nwalk (the exec_rule calls its exec_list made), failat (the call that   *)
(* returned non-zero), rule (the rule whose body a recipe frame runs),     *)
(* start (main: the filesystem and the number of tasks when exec_main was  *)
(* entered), runs (main: the exec_main calls that have returned) and entry *)
(* (wait_result: counters when it was entered; exec_func: aliases when it  *)
(* was entered) are history.  pushed lists the cs_stacked_values of an     *)
(* exec_func call that have pushed their value.                            *)
(***************************************************************************)
NoFrame ==
    [fn |-> "", pc |-> "", kind |-> "", target |-> << >>, from |-> << >>,
     rl |-> << >>, i |-> 0, j |-> 0, subdeps |-> << >>, ret |-> 0,
     ctr |-> 0, k |-> 0, func |-> 0, bar |-> 0, nwalk |-> 0, failat |-> 0,
     rule |-> 0, start |-> << >>, runs |-> << >>, pushed |-> << >>,
     entry |-> << >>]

MainFrame == [NoFrame EXCEPT !.fn = "main", !.pc = "exec_main"]

WaitResultFrame(kind, target, rl) ==
    [NoFrame EXCEPT !.fn = "wait_result", !.pc = "enter", !.kind = kind,
                    !.target = target, !.rl = rl]

ExecRuleFrame(target, from) ==
    [NoFrame EXCEPT !.fn = "exec_rule", !.pc = "enter", !.target = target,
                    !.from = from]

ExecFuncFrame(target, rl) ==
    [NoFrame EXCEPT !.fn = "exec_func", !.pc = "enter", !.target = target,
                    !.rl = rl]

ExecListFrame(target, rl) ==
    [NoFrame EXCEPT !.fn = "exec_list", !.pc = "loop", !.target = target,
                    !.rl = rl, !.i = 1, !.j = 1]

\* run_int of a rule's func; an empty body runs nothing and yields 0
RecipeOf(func) == IF func = 0 THEN Recipe(0, {}, 0) ELSE Recipes[func]

\* run_int(func): the frame of the body of rule r; f carries what the
\* caller (exec_func or exec_rule) knew when it started the body
RecipeFrame(f, r) ==
    [f EXCEPT !.fn = "recipe",
              !.pc = IF RecipeOf(rules[r].func).invoke # << >>
                     THEN "invoke" ELSE "incr",
              !.func = rules[r].func, !.rule = r, !.k = 1]

Top == stack[Len(stack)]
SetTop(stk, f) == [stk EXCEPT ![Len(stk)] = f]
Push(stk, f) == Append(stk, f)

\* return v to the caller: the callee's frame goes, the caller finds v in ret
Return(stk, v) ==
    LET n == Len(stk) IN
    [SubSeq(stk, 1, n - 1) EXCEPT ![n - 1].ret = v]

\* RuleCounter(): counter 0, result 0; live until the owner's frame returns,
\* waited once that frame has returned from ctr.wait()
NewCounter ==
    [counter |-> 0, result |-> 0, live |-> TRUE, first |-> 0,
     waited |-> FALSE]

AliasNames == {"target", "source", "sources"}

\* an identifier: an alias with the values pushed on it, or (alias FALSE)
\* one that exists and is not an alias: a variable or a command
Ident(isAlias, vals) == [alias |-> isAlias, vals |-> vals]

\* a fresh cs_state: none of the three identifiers exists; new_ident makes
\* an alias with no value of one that does not exist
NoAliases == [a \in AliasNames |-> Ident(TRUE, << >>)]

\* cs_stacked_value::set_alias(new_ident(name)): false when the identifier
\* is not an alias
set_alias(al, name) == al[name].alias

\* cs_stacked_value::push: the value is pushed on the alias
AliasPush(al, name, v) == [al EXCEPT ![name].vals = Append(@, v)]

\* ~cs_stacked_value: a value that was pushed is popped
AliasPop(al, name) == [al EXCEPT ![name].vals = SubSeq(@, 1, Len(@) - 1)]

\* the destructors of the cs_stacked_values that pushed, last declared first
RECURSIVE AliasPopAll(_, _)
AliasPopAll(al, pushed) ==
    IF pushed = << >> THEN al
    ELSE AliasPopAll(AliasPop(al, pushed[Len(pushed)]),
                     SubSeq(pushed, 1, Len(pushed) - 1))

\* ostd::concat(dsv, subdeps): the names with a space between them
RECURSIVE concat(_)
concat(ss) ==
    IF ss = << >> THEN << >>
    ELSE IF Len(ss) = 1 THEN ss[1]
    ELSE ss[1] \o <<" ">> \o concat(Tail(ss))

\* exec_func, the body of the if: the aliases are bound for the frame f;
\* refused when set_alias fails (return 1; the values pushed so far are
\* popped as the function returns)
BindKeepsTarget(f, al) ==
    IF ~set_alias(al, "target")
    THEN [refused |-> TRUE, al |-> al, pushed |-> << >>]
    ELSE LET a1 == AliasPush(al, "target", f.target) IN
         IF f.subdeps = << >>
         THEN [refused |-> FALSE, al |-> a1, pushed |-> <<"target">>]
         ELSE IF ~set_alias(a1, "source") \/ ~set_alias(a1, "sources")
         THEN [refused |-> TRUE, al |-> a1, pushed |-> << >>]
         ELSE [refused |-> FALSE,
               al |-> AliasPush(AliasPush(a1, "source", f.subdeps[1]),
                                "sources", concat(f.subdeps)),
               pushed |-> <<"target", "source", "sources">>]

Bind(f, al) ==
    IF ~set_alias(al, "target")
    THEN [refused |-> TRUE, al |-> al, pushed |-> << >>]
    ELSE LET a1 == AliasPush(al, "target", f.target) IN
         IF f.subdeps = << >>
         THEN [refused |-> FALSE, al |-> a1, pushed |-> <<"target">>]
         ELSE IF ~set_alias(a1, "source") \/ ~set_alias(a1, "sources")
         THEN [refused |-> TRUE, al |-> AliasPop(a1, "target"),
               pushed |-> << >>]
         ELSE [refused |-> FALSE,
               al |-> AliasPush(AliasPush(a1, "source", f.subdeps[1]),
                                "sources", concat(f.subdeps)),
               pushed |-> <<"target", "source", "sources">>]

\* exec_list: the next (rule, dependency) position of the two nested loops
RECURSIVE NextPos(_, _, _)
NextPos(rl, i, j) ==
    IF i > Len(rl) THEN <<i, 1>>
    ELSE IF j > Len(rules[rl[i].rule].deps) THEN NextPos(rl, i + 1, 1)
    ELSE <<i, j>>

\* int exec_main(target): wait_result around exec_rule(target)
\* (called by the `invoke` command and by the last statement of main)
ExecMain ==
    /\ Top.fn = "main" /\ Top.pc = "exec_main"
    /\ stack' = Push(SetTop(stack, [Top EXCEPT !.pc = "returned",
                                      !.start = [files |-> files,
                                                 ntasks |-> Len(heap)]]),
                     WaitResultFrame("main", Head(goal), << >>))
    /\ UNCHANGED <<rules, resolveVars, aliases, goal, files, now, cache,
                   counters, ctrs, poolVars>>

\* wait_result: RuleCounter ctr; counters.push_back(&ctr); int ret = func();
WaitResultEnter ==
    /\ Top.fn = "wait_result" /\ Top.pc = "enter"
    /\ LET c == Len(ctrs) + 1
           n == Len(stack)
           callee == IF Top.kind = "main"
                     THEN ExecRuleFrame(Top.target, << >>)
                     ELSE ExecListFrame(Top.target, Top.rl)
           noted == IF Top.kind = "func"
                    THEN [stack EXCEPT ![n - 1].bar = c]
                    ELSE stack
       IN /\ ctrs' = Append(ctrs, NewCounter)
          /\ counters' = Append(counters, c)
          /\ stack' = Push([noted EXCEPT ![n].pc = "after", ![n].ctr = c,
                                          ![n].entry = counters],
                           callee)
    /\ UNCHANGED <<rules, resolveVars, aliases, goal, files, now, cache,
                   poolVars>>

\* a wait_result that returns a non-zero ret before it pops
WaitResultAfterPopsLate ==
    /\ Top.fn = "wait_result" /\ Top.pc = "after"
    /\ IF Top.ret # 0
       THEN /\ stack' = Return(stack, Top.ret)
            /\ ctrs' = [ctrs EXCEPT ![Top.ctr].live = FALSE]
            /\ counters' = counters
       ELSE /\ stack' = SetTop(stack, [Top EXCEPT !.pc = "wait"])
            /\ ctrs' = ctrs
            /\ counters' = SubSeq(counters, 1, Len(counters) - 1)
    /\ UNCHANGED <<rules, resolveVars, aliases, goal, files, now, cache,
                   poolVars>>

\* wait_result: counters.pop_back(); if (ret) return ret;
WaitResultAfter ==
    /\ Top.fn = "wait_result" /\ Top.pc = "after"
    /\ counters' = SubSeq(counters, 1, Len(counters) - 1)
    /\ IF Top.ret # 0
       THEN /\ stack' = Return(stack, Top.ret)
            /\ ctrs' = [ctrs EXCEPT ![Top.ctr].live = FALSE]
       ELSE /\ stack' = SetTop(stack, [Top EXCEPT !.pc = "wait"])
            /\ ctrs' = ctrs
    /\ UNCHANGED <<rules, resolveVars, aliases, goal, files, now, cache,
                   poolVars>>

\* wait_result: ctr.wait(); return ctr.get_result();
\* RuleCounter::wait: under p_mtx, while (p_counter) p_cond.wait(l)
WaitResultWait ==
    /\ Top.fn = "wait_result" /\ Top.pc = "wait"
    /\ IF ctrs[Top.ctr].counter = 0
       THEN /\ stack' = Return(stack, ctrs[Top.ctr].result)
            /\ ctrs' = [ctrs EXCEPT ![Top.ctr].live = FALSE,
                                    ![Top.ctr].waited = TRUE]
       ELSE /\ stack' = SetTop(stack, [Top EXCEPT !.pc = "sleep"])
            /\ ctrs' = ctrs
    /\ UNCHANGED <<rules, resolveVars, aliases, goal, files, now, cache,
                   counters, poolVars>>

\* p_cond.wait(l) may return without a notification
WaitSpurious ==
    /\ Top.fn = "wait_result" /\ Top.pc = "sleep"
    /\ stack' = SetTop(stack, [Top EXCEPT !.pc = "wait"])
    /\ UNCHANGED <<rules, resolveVars, aliases, goal, files, now, cache,
                   counters, ctrs, poolVars>>

\* what exec_rule does with the result o of find_rules, on the filesystem fs
ExecRuleOutcome(fs, t, o) ==
    IF o.ret # 0 THEN "redefinition"
    ELSE IF Len(o.rlist) = 1 /\ rules[o.rlist[1].rule].action
    THEN "exec_action"
    ELSE IF o.rlist = << >> /\ ~ob_check_file(fs, t) THEN "no rule"
    ELSE "exec_func"

\* int exec_rule(target, from)
ExecRule ==
    /\ Top.fn = "exec_rule"
    /\ LET t == Top.target IN
       \E o \in find_rules(t, cache[t].rlist, cache[t].cap, rules) :
          LET out == ExecRuleOutcome(files, t, o) IN
          /\ cache' = [cache EXCEPT ![t] =
                        [rlist |-> o.rlist, cap |-> o.cap,
                         hist |-> Append(cache[t].hist,
                                         [rlist |-> o.rlist, out |-> out])]]
          /\ stack' =
                IF out = "redefinition" THEN Return(stack, o.ret)
                ELSE IF out = "exec_action"
                THEN SetTop(stack, RecipeFrame([Top EXCEPT !.rl = o.rlist],
                                               o.rlist[1].rule))
                ELSE IF out = "no rule" THEN Return(stack, 1)
                ELSE SetTop(stack, ExecFuncFrame(t, o.rlist))
    /\ UNCHANGED <<rules, resolveVars, aliases, goal, files, now, counters,
                   ctrs, poolVars>>

\* exec_func, after wait_result, for the frame f and the filesystem fs:
\* (!ret && (act || ob_check_exec(tname, subdeps))) && func
RunsRecipe(f, fs) ==
    LET k == FirstFunc(f.rl, rules, 1)
        func == IF k = 0 THEN 0 ELSE rules[f.rl[k].rule].func
        act == IF k = 0 THEN FALSE ELSE rules[f.rl[k].rule].action
    IN (f.ret = 0 /\ (act \/ ob_check_exec(fs, f.target, f.subdeps)))
            /\ func # 0

\* exec_func: int ret = wait_result([...]() { return exec_list(...); });
ExecFuncEnter ==
    /\ Top.fn = "exec_func" /\ Top.pc = "enter"
    /\ stack' = Push(SetTop(stack, [Top EXCEPT !.pc = "after",
                                                !.entry = aliases]),
                     WaitResultFrame("func", Top.target, Top.rl))
    /\ UNCHANGED <<rules, resolveVars, aliases, goal, files, now, cache,
                   counters, ctrs, poolVars>>

\* exec_func, after wait_result: pick the recipe, decide, run it or return ret
ExecFuncAfter ==
    /\ Top.fn = "exec_func" /\ Top.pc = "after"
    /\ IF RunsRecipe(Top, files)
       THEN LET b == Bind(Top, aliases) IN
            /\ aliases' = b.al
            /\ stack' =
                    IF b.refused THEN Return(stack, 1)
                    ELSE SetTop(stack,
                            RecipeFrame([Top EXCEPT !.pushed = b.pushed],
                                Top.rl[FirstFunc(Top.rl, rules, 1)].rule))
       ELSE /\ aliases' = aliases
            /\ stack' = Return(stack, Top.ret)
    /\ UNCHANGED <<rules, resolveVars, goal, files, now, cache, counters,
                   ctrs, poolVars>>

\* exec_list: the loop head; substitute the next dependency, record it in
\* the caller's subdeps and call exec_rule on it, or return 0 at the end
ExecListLoop ==
    /\ Top.fn = "exec_list" /\ Top.pc = "loop"
    /\ LET pos == NextPos(Top.rl, Top.i, Top.j)
           i == pos[1]
           j == pos[2]
           n == Len(stack)
       IN IF i > Len(Top.rl)
          THEN stack' = Return(stack, 0)
          ELSE LET sr == Top.rl[i]
                   atgt == SubstDep(rules[sr.rule].deps[j], sr.sub)
                   s1 == [stack EXCEPT
                            ![n] = [Top EXCEPT !.i = i, !.j = j, !.pc = "ret"],
                            ![n - 2].subdeps = Append(@, atgt),
                            ![n - 2].nwalk = @ + 1]
               IN /\ n < MaxDepth
                  /\ stack' = Push(s1, ExecRuleFrame(atgt, Top.target))
    /\ UNCHANGED <<rules, resolveVars, aliases, goal, files, now, cache,
                   counters, ctrs, poolVars>>

\* exec_list without `if (r) return r;`: the loop goes on after a failure
ExecListRetKeepsGoing ==
    /\ Top.fn = "exec_list" /\ Top.pc = "ret"
    /\ LET n == Len(stack)
           noted == IF Top.ret # 0
                    THEN [stack EXCEPT ![n - 2].failat = stack[n - 2].nwalk]
                    ELSE stack
       IN stack' = SetTop(noted, [Top EXCEPT !.j = @ + 1, !.pc = "loop"])
    /\ UNCHANGED <<rules, resolveVars, aliases, goal, files, now, cache,
                   counters, ctrs, poolVars>>

\* exec_list: int r = exec_rule(atgt, tname); if (r) return r;
ExecListRet ==
    /\ Top.fn = "exec_list" /\ Top.pc = "ret"
    /\ LET n == Len(stack) IN
       IF Top.ret # 0
       THEN stack' = Return([stack EXCEPT ![n - 2].failat = stack[n - 2].nwalk],
                            Top.ret)
       ELSE stack' = SetTop(stack, [Top EXCEPT !.j = @ + 1, !.pc = "loop"])
    /\ UNCHANGED <<rules, resolveVars, aliases, goal, files, now, cache,
                   counters, ctrs, poolVars>>

(***************************************************************************)
(* thread_pool                                                             *)
(***************************************************************************)
\* a task node: the closure of the shell command (cnt, the command, here
\* the file it builds and the statuses it can exit with) and `next`;
\* st, code, by, runner and k (the position of the shell command in its
\* recipe body) are history: st is "queued", then "running" from
\* the dequeue until system() returns, then "exited", then "done" once the
\* task has decremented its barrier
TaskNode(cnt, out, codes, by) ==
    [cnt |-> cnt, out |-> out, codes |-> codes, next |-> 0,
     st |-> "queued", code |-> 0, by |-> by, runner |-> 0, k |-> 0]

\* push that links the new node in front of the list
PoolPushFront(hp, hd, lt, node) ==
    LET id == Len(hp) + 1 IN
    [heap |-> Append(hp, [node EXCEPT !.next = hd]),
     last_task |-> IF lt = 0 THEN id ELSE lt,
     tasks |-> id]

\* thread_pool::push, under mtx: the list after appending a node
PoolPush(hp, hd, lt, node) ==
    LET id == Len(hp) + 1
        h1 == Append(hp, node)
    IN [heap |-> IF lt # 0 THEN [h1 EXCEPT ![lt].next = id] ELSE h1,
        last_task |-> id,
        tasks |-> IF hd = 0 THEN id ELSE hd]

\* thread_pool::run, under mtx: the list after taking the head node
PoolPop(hp, hd, lt) ==
    [task |-> hd,
     tasks |-> hp[hd].next,
     last_task |-> IF lt = hd THEN 0 ELSE lt]

Waiting == { w \in 1 .. Jobs : workers[w].pc = "wait" }

\* a notification that wakes no thread
NotifyNone(ws) == {ws}

\* cond.notify_one(): the threads after one of those blocked in cond.wait,
\* if there is any, has been woken
NotifyOne(ws) ==
    IF \A w \in 1 .. Jobs : ws[w].pc # "wait"
    THEN {ws}
    ELSE { [ws EXCEPT ![w].pc = "lock"] :
              w \in { v \in 1 .. Jobs : ws[v].pc = "wait" } }

\* a shell command that takes the barrier but does not count the task on it
ShellNoIncr ==
    /\ Top.fn = "recipe" /\ Top.pc = "incr"
    /\ Top.k <= RecipeOf(Top.func).shells
    /\ stack' = SetTop(stack, [Top EXCEPT !.pc = "push",
                                          !.ctr = counters[Len(counters)]])
    /\ UNCHANGED <<rules, resolveVars, aliases, goal, files, now, cache,
                   counters, ctrs, poolVars>>

\* the shell command: auto cnt = os.counters.back(); cnt->incr();
\* back() of an empty vector is undefined: the process is killed by the
\* read or by the increment, or cnt is whatever the word before the buffer
\* points to, memory that is no RuleCounter (entered in ctrs as not live)
ShellIncr ==
    /\ Top.fn = "recipe" /\ Top.pc = "incr"
    /\ Top.k <= RecipeOf(Top.func).shells
    /\ IF counters # << >>
       THEN LET cnt == counters[Len(counters)] IN
            /\ ctrs' = [ctrs EXCEPT ![cnt].counter = @ + 1]
            /\ stack' = SetTop(stack, [Top EXCEPT !.pc = "push",
                                                  !.ctr = cnt])
            /\ workers' = workers
       ELSE \/ /\ stack' = SetTop(stack, [Top EXCEPT !.pc = "killed"])
               /\ workers' = [w \in 1 .. Jobs |->
                                [workers[w] EXCEPT !.pc = "killed"]]
               /\ ctrs' = ctrs
            \/ /\ ctrs' = Append(ctrs, [NewCounter EXCEPT !.live = FALSE,
                                                          !.counter = 1])
               /\ stack' = SetTop(stack, [Top EXCEPT !.pc = "push",
                                                     !.ctr = Len(ctrs) + 1])
               /\ workers' = workers
    /\ UNCHANGED <<rules, resolveVars, aliases, goal, files, now, cache,
                   counters, running, tasks, last_task, heap, deqSeq>>

\* a shell command that runs the command itself instead of queueing it
ShellPushInline ==
    /\ Top.fn = "recipe" /\ Top.pc = "push"
    /\ LET node == [TaskNode(Top.ctr, Top.target,
                             RecipeOf(Top.func).codes, Top.target)
                       EXCEPT !.k = Top.k]
       IN heap' = Append(heap, [node EXCEPT !.st = "running"])
    /\ stack' = SetTop(stack, [Top EXCEPT !.pc = "incr", !.k = @ + 1])
    /\ UNCHANGED <<rules, resolveVars, aliases, goal, files, now, cache,
                   counters, ctrs, running, tasks, last_task, workers, deqSeq>>

\* the shell command: tpool.push([cnt, ds]() {...}); res.set_int(0);
\* push ends with cond.notify_one(), which wakes one waiting thread if any
ShellPush ==
    /\ Top.fn = "recipe" /\ Top.pc = "push"
    /\ LET node == [TaskNode(Top.ctr, Top.target,
                             RecipeOf(Top.func).codes, Top.target)
                       EXCEPT !.k = Top.k]
           q == PoolPush(heap, tasks, last_task, node)
       IN /\ heap' = q.heap
          /\ tasks' = q.tasks
          /\ last_task' = q.last_task
    /\ workers' \in NotifyOne(workers)
    /\ stack' = SetTop(stack, [Top EXCEPT !.pc = "incr", !.k = @ + 1])
    /\ UNCHANGED <<rules, resolveVars, aliases, goal, files, now, cache,
                   counters, ctrs, running, deqSeq>>

\* the invoke command in a recipe body:
\* res.set_int(os.exec_main(args[0].get_strr()));
RecipeInvoke ==
    /\ Top.fn = "recipe" /\ Top.pc = "invoke"
    /\ Len(stack) < MaxDepth
    /\ stack' = Push(SetTop(stack, [Top EXCEPT !.pc = "incr"]),
                     WaitResultFrame("main", RecipeOf(Top.func).invoke,
                                     << >>))
    /\ UNCHANGED <<rules, resolveVars, aliases, goal, files, now, cache,
                   counters, ctrs, poolVars>>

\* the end of a recipe body: run_int returns the body's result, and the
\* cs_stacked_values of the exec_func that ran it are destroyed
RecipeReturn ==
    /\ Top.fn = "recipe" /\ Top.pc = "incr"
    /\ Top.k > RecipeOf(Top.func).shells
    /\ stack' = Return(stack, RecipeOf(Top.func).ret)
    /\ aliases' = AliasPopAll(aliases, Top.pushed)
    /\ UNCHANGED <<rules, resolveVars, goal, files, now, cache, counters,
                   ctrs, poolVars>>

\* thread_pool::run, the top of the loop, under mtx:
\* while (running && tasks == nullptr) cond.wait(l); if (!running) return;
\* task *t = tasks; tasks = t->next; ...
WorkerLock(w) ==
    /\ workers[w].pc = "lock"
    /\ IF running /\ tasks = 0
       THEN /\ workers' = [workers EXCEPT ![w].pc = "wait"]
            /\ UNCHANGED <<tasks, last_task, heap, deqSeq>>
       ELSE IF ~running
       THEN /\ workers' = [workers EXCEPT ![w].pc = "exit"]
            /\ UNCHANGED <<tasks, last_task, heap, deqSeq>>
       ELSE LET q == PoolPop(heap, tasks, last_task) IN
            /\ tasks' = q.tasks
            /\ last_task' = q.last_task
            /\ heap' = [heap EXCEPT ![q.task].st = "running",
                                    ![q.task].runner = w]
            /\ deqSeq' = Append(deqSeq, q.task)
            /\ workers' = [workers EXCEPT ![w].pc = "sys", ![w].task = q.task]
    /\ UNCHANGED <<rules, resolveVars, execVars, running>>

\* cond.wait(l) may return without a notification
WorkerSpurious(w) ==
    /\ workers[w].pc = "wait"
    /\ workers' = [workers EXCEPT ![w].pc = "lock"]
    /\ UNCHANGED <<rules, resolveVars, execVars, running, tasks, last_task,
                   heap, deqSeq>>

\* the task: int ret = system(ds.data());
\* a command that exits with 0 has written the file it builds
WorkerSystem(w) ==
    /\ workers[w].pc = "sys"
    /\ LET t == workers[w].task IN
       \E code \in heap[t].codes :
          /\ workers' = [workers EXCEPT ![w].pc = "check", ![w].ret = code]
          /\ heap' = [heap EXCEPT ![t].code = code, ![t].st = "exited"]
          /\ IF code = 0
             THEN /\ files' = [files EXCEPT ![heap[t].out] = now]
                  /\ now' = now + 1
             ELSE UNCHANGED <<files, now>>
    /\ UNCHANGED <<rules, resolveVars, aliases, goal, cache, counters, ctrs,
                   stack, running, tasks, last_task, deqSeq>>

\* what a read of the barrier's p_result can see: the stored value, or
\* anything once wait_result has returned and the barrier is gone
ResultSeen(cnt) ==
    IF ctrs[cnt].live THEN {ctrs[cnt].result = 0} ELSE BOOLEAN

\* a task that stores its status whatever it is
WorkerCheckStoresAll(w) ==
    /\ workers[w].pc = "check"
    /\ workers' = [workers EXCEPT ![w].pc = "store"]
    /\ UNCHANGED <<rules, resolveVars, execVars, running, tasks, last_task,
                   heap, deqSeq>>

\* the task: if (ret && !cnt->get_result())
WorkerCheck(w) ==
    /\ workers[w].pc = "check"
    /\ LET cnt == heap[workers[w].task].cnt
           ret == workers[w].ret
       IN /\ \E zero \in ResultSeen(cnt) :
                workers' = [workers EXCEPT ![w].pc =
                    IF ret # 0 /\ zero THEN "store" ELSE "decr"]
          /\ ctrs' = IF ret # 0 /\ ctrs[cnt].first = 0
                     THEN [ctrs EXCEPT ![cnt].first = ret]
                     ELSE ctrs
    /\ UNCHANGED <<rules, resolveVars, aliases, goal, files, now, cache,
                   counters, stack, running, tasks, last_task, heap, deqSeq>>

\* the task: cnt->get_result() = ret;
WorkerStore(w) ==
    /\ workers[w].pc = "store"
    /\ ctrs' = [ctrs EXCEPT ![heap[workers[w].task].cnt].result =
                                workers[w].ret]
    /\ workers' = [workers EXCEPT ![w].pc = "decr"]
    /\ UNCHANGED <<rules, resolveVars, aliases, goal, files, now, cache,
                   counters, stack, running, tasks, last_task, heap, deqSeq>>

\* where a thread is after it has locked the mutex or notified the
\* condition variable of a barrier: at the next statement, or, once
\* wait_result has returned and the barrier's storage is reused, possibly
\* blocked in the call for good
AfterSync(cnt, pc) == IF ctrs[cnt].live THEN {pc} ELSE {pc, "stuck"}

\* the task: cnt->decr(), under p_mtx: if (!--p_counter) { l.unlock(); ...
WorkerDecr(w) ==
    /\ workers[w].pc = "decr"
    /\ LET t == workers[w].task
           cnt == heap[t].cnt
       IN \E pc \in AfterSync(cnt, IF ctrs[cnt].counter = 1
                                   THEN "notify" ELSE "lock") :
          /\ workers' = [workers EXCEPT ![w].pc = pc]
          /\ IF pc = "stuck"
             THEN UNCHANGED <<ctrs, heap>>
             ELSE /\ ctrs' = [ctrs EXCEPT ![cnt].counter = @ - 1]
                  /\ heap' = [heap EXCEPT ![t].st = "done"]
    /\ UNCHANGED <<rules, resolveVars, aliases, goal, files, now, cache,
                   counters, stack, running, tasks, last_task, deqSeq>>

\* RuleCounter::decr: p_cond.notify_all(), after the unlock
WorkerNotify(w) ==
    /\ workers[w].pc = "notify"
    /\ LET cnt == heap[workers[w].task].cnt IN
       \E pc \in AfterSync(cnt, "lock") :
          /\ workers' = [workers EXCEPT ![w].pc = pc]
          /\ stack' = IF /\ Top.fn = "wait_result" /\ Top.pc = "sleep"
                         /\ Top.ctr = cnt
                      THEN SetTop(stack, [Top EXCEPT !.pc = "wait"])
                      ELSE stack
    /\ UNCHANGED <<rules, resolveVars, aliases, goal, files, now, cache,
                   counters, ctrs, running, tasks, last_task, heap, deqSeq>>

\* exec_main has returned to main: to the `invoke` of the definition file
\* (res.set_int; the script goes on to its next invoke), or to the return
\* statement of main
MainReturned ==
    /\ Top.fn = "main" /\ Top.pc = "returned"
    /\ LET run == [target |-> Head(goal), ret |-> Top.ret,
                   ntasks |-> Len(heap), start |-> Top.start]
           f == [Top EXCEPT !.runs = Append(@, run)]
       IN IF Len(goal) > 1
          THEN /\ goal' = Tail(goal)
               /\ stack' = SetTop(stack, [f EXCEPT !.pc = "exec_main"])
          ELSE /\ goal' = goal
               /\ stack' = SetTop(stack, [f EXCEPT !.pc = "destroy"])
    /\ UNCHANGED <<rules, resolveVars, aliases, files, now, cache, counters,
                   ctrs, poolVars>>

\* thread_pool::destroy, under mtx: where the call goes on and the value
\* of running after if (!running) { mtx.unlock(); return; } running = false;
PoolDestroy(r) ==
    IF ~r THEN [running |-> r, pc |-> "done"]
          ELSE [running |-> FALSE, pc |-> "notify_all"]

\* main returns: ~thread_pool -> destroy()
Destroy ==
    /\ Top.fn = "main" /\ Top.pc = "destroy"
    /\ running' = PoolDestroy(running).running
    /\ stack' = SetTop(stack, [Top EXCEPT !.pc = PoolDestroy(running).pc])
    /\ UNCHANGED <<rules, resolveVars, aliases, goal, files, now, cache,
                   counters, ctrs, tasks, last_task, heap, workers, deqSeq>>

\* a destroy that wakes one waiting thread only
DestroyNotifyOne ==
    /\ Top.fn = "main" /\ Top.pc = "notify_all"
    /\ IF Waiting = {}
       THEN workers' = workers
       ELSE \E w \in Waiting : workers' = [workers EXCEPT ![w].pc = "lock"]
    /\ stack' = SetTop(stack, [Top EXCEPT !.pc = "join"])
    /\ UNCHANGED <<rules, resolveVars, aliases, goal, files, now, cache,
                   counters, ctrs, running, tasks, last_task, heap, deqSeq>>

\* destroy: mtx.unlock(); cond.notify_all();
DestroyNotify ==
    /\ Top.fn = "main" /\ Top.pc = "notify_all"
    /\ workers' = [w \in 1 .. Jobs |->
                    IF workers[w].pc = "wait"
                    THEN [workers[w] EXCEPT !.pc = "lock"]
                    ELSE workers[w]]
    /\ stack' = SetTop(stack, [Top EXCEPT !.pc = "join"])
    /\ UNCHANGED <<rules, resolveVars, aliases, goal, files, now, cache,
                   counters, ctrs, running, tasks, last_task, heap, deqSeq>>

\* destroy: for (std::thread &tid: thrs) tid.join();
Join ==
    /\ Top.fn = "main" /\ Top.pc = "join"
    /\ \A w \in 1 .. Jobs : workers[w].pc = "exit"
    /\ stack' = SetTop(stack, [Top EXCEPT !.pc = "done"])
    /\ UNCHANGED <<rules, resolveVars, aliases, goal, files, now, cache,
                   counters, ctrs, poolVars>>

(***************************************************************************)
(* The build run: main after the definition file has been evaluated, for   *)
(* each of the rule sets below.                                            *)
(***************************************************************************)
FilesWith(present) ==
    [n \in Names |-> IF n \in DOMAIN present THEN present[n] ELSE 0]

Scenario(rs, g, fs) == [rules |-> rs, goal |-> g, files |-> fs]

\* t needs a.o and p, p needs a.o as well
ScDiamond ==
    Scenario(<< Rule(Tt, <<Ao, Pp>>, 1, FALSE), Rule(Pp, <<Ao>>, 1, FALSE),
                Rule(PatO, <<PatC>>, 1, FALSE) >>,
             <<Tt>>, (Ac :> 1))

\* the same, where the definition file invokes t and t is the target of
\* the command line too
ScDiamondTwice == [ScDiamond EXCEPT !.goal = <<Tt, Tt>>]

\* the commands of a.o may fail
ScFailingCommands ==
    Scenario(<< Rule(Tt, <<Ao>>, 1, FALSE), Rule(PatO, <<PatC>>, 2, FALSE) >>,
             <<Tt>>, (Ac :> 1))

\* a failure two levels down, with a dependency after it
ScFailureBelow ==
    Scenario(<< Rule(Tt, <<Pp, Bo>>, 1, FALSE), Rule(Pp, <<Ao>>, 1, FALSE),
                Rule(PatO, <<PatC>>, 3, FALSE) >>,
             <<Tt>>, (Ac :> 1) @@ (Bc :> 1))

\* two rules with a body for t, invoked and then run
ScTwoBodies ==
    Scenario(<< Rule(Tt, << >>, 1, FALSE), Rule(Tt, << >>, 1, FALSE) >>,
             <<Tt, Tt>>, << >>)

\* a recipe whose result is non-zero
ScFailingRecipe ==
    Scenario(<< Rule(Tt, <<Pp, Ao>>, 1, FALSE), Rule(Pp, << >>, 4, FALSE),
                Rule(PatO, <<PatC>>, 1, FALSE) >>,
             <<Tt>>, (Ac :> 1))

\* t needs p and p needs t
ScCyclic ==
    Scenario(<< Rule(Tt, <<Pp>>, 1, FALSE), Rule(Pp, <<Tt>>, 1, FALSE) >>,
             <<Tt>>, << >>)

Scenarios ==
    {   ScDiamond,
        \* the same rules on a tree that is up to date
        Scenario(<< Rule(Tt, <<Ao, Pp>>, 1, FALSE), Rule(Pp, <<Ao>>, 1, FALSE),
                    Rule(PatO, <<PatC>>, 1, FALSE) >>,
                 <<Tt>>, (Ac :> 1) @@ (Ao :> 1) @@ (Pp :> 1) @@ (Tt :> 1)),
        ScFailingCommands,
        \* ... and x has neither a rule nor a file
        Scenario(<< Rule(Tt, <<Ao, Xx>>, 1, FALSE),
                    Rule(PatO, <<PatC>>, 2, FALSE) >>,
                 <<Tt>>, (Ac :> 1)),
        ScFailureBelow,
        \* three commands queued on one barrier
        Scenario(<< Rule(Tt, <<Ao>>, 1, FALSE),
                    Rule(PatO, <<PatC>>, 5, FALSE) >>,
                 <<Tt>>, (Ac :> 1)),
        \* an action
        Scenario(<< Rule(Tt, << >>, 3, TRUE) >>, <<Tt>>, << >>),
        \* action t [..]; depend t a.c -- with a file named t
        Scenario(<< Rule(Tt, << >>, 1, TRUE), Rule(Tt, <<Ac>>, 0, FALSE) >>,
                 <<Tt>>, (Ac :> 1) @@ (Tt :> 1)),
        \* rule % "" [..]; action t [..] -- with a file named t
        Scenario(<< Rule(<<"%">>, << >>, 5, FALSE), Rule(Tt, << >>, 1, TRUE) >>,
                 <<Tt>>, (Tt :> 1)),
        \* action p [..]; depend x ""; duprule t p a.o -- the rules vector
        \* holds three rules in a buffer of four when duprule appends
        Scenario(<< Rule(PatO, <<PatC>>, 1, FALSE), Rule(Pp, << >>, 1, TRUE),
                    Rule(Xx, << >>, 0, FALSE), Rule(Tt, <<Ao>>, 1, TRUE) >>,
                 <<Tt>>, (Ac :> 1)),
        ScTwoBodies,
        \* rule t a.o []: no rule for t has a body, t is no file
        Scenario(<< Rule(Tt, <<Ao>>, 0, FALSE),
                    Rule(PatO, <<PatC>>, 1, FALSE) >>,
                 <<Tt>>, (Ac :> 1) @@ (Ao :> 1)),
        \* depend %.o %.c: the only rule for a.o has no body
        Scenario(<< Rule(Tt, <<Ao>>, 1, FALSE),
                    Rule(PatO, <<PatC>>, 0, FALSE) >>,
                 <<Tt>>, (Ac :> 1)),
        ScFailingRecipe,
        ScCyclic
    }

\* the commands of a.o succeed or fail
ScTwoCommands ==
    Scenario(<< Rule(Tt, <<Ao>>, 1, FALSE), Rule(PatO, <<PatC>>, 7, FALSE) >>,
             <<Tt>>, (Ac :> 1))

\* the rule sets of the runs checked under fair scheduling: their
\* dependency graphs are acyclic
FairScenarios ==
    {ScTwoCommands, ScTwoBodies, ScFailingRecipe}

\* the cache of a fresh ObState: operator[] creates an empty rlist
NoCache == [n \in Names |-> [rlist |-> << >>, cap |-> 0, hist |-> << >>]]

NoWorker == [pc |-> "lock", task |-> 0, ret |-> 0]

InitPool ==
    /\ running = TRUE
    /\ tasks = 0
    /\ last_task = 0
    /\ heap = << >>
    /\ workers = [w \in 1 .. Jobs |-> NoWorker]
    /\ deqSeq = << >>

InitOf(scs) ==
    /\ \E sc \in scs :
        /\ rules = sc.rules
        /\ goal = sc.goal
        /\ files = FilesWith(sc.files)
    /\ now = 2
    /\ cache = NoCache
    /\ counters = << >>
    /\ ctrs = << >>
    /\ stack = <<MainFrame>>
    /\ InitPool
    /\ aliases = NoAliases
    /\ frTarget = << >>
    /\ fr = FrStart(<< >>, 0)

Init == InitOf(Scenarios)

\* the runs in which a target is built and then asked for again
RerunScenarios == {ScDiamondTwice, ScTwoBodies, ScFailingCommands}

InitRerun == InitOf(RerunScenarios)

InitFair == InitOf(FairScenarios)

Next ==
    \/ ExecMain
    \/ WaitResultEnter
    \/ WaitResultAfter
    \/ WaitResultWait
    \/ WaitSpurious
    \/ ExecRule
    \/ ExecFuncEnter
    \/ ExecFuncAfter
    \/ ExecListLoop
    \/ ExecListRet
    \/ ShellIncr
    \/ ShellPush
    \/ RecipeReturn
    \/ MainReturned
    \/ Destroy
    \/ DestroyNotify
    \/ Join
    \/ \E w \in 1 .. Jobs :
        \/ WorkerLock(w)
        \/ WorkerSpurious(w)
        \/ WorkerSystem(w)
        \/ WorkerCheck(w)
        \/ WorkerStore(w)
        \/ WorkerDecr(w)
        \/ WorkerNotify(w)

Spec == Init /\ [][Next]_vars

\* the steps of the evaluator thread and of a worker thread that the
\* scheduler owes them: every step but a spurious return of a wait
EvalStep ==
    \/ ExecMain
    \/ WaitResultEnter
    \/ WaitResultAfter
    \/ WaitResultWait
    \/ ExecRule
    \/ ExecFuncEnter
    \/ ExecFuncAfter
    \/ ExecListLoop
    \/ ExecListRet
    \/ ShellIncr
    \/ ShellPush
    \/ RecipeReturn
    \/ MainReturned
    \/ Destroy
    \/ DestroyNotify
    \/ Join

WorkerStep(w) ==
    \/ WorkerLock(w)
    \/ WorkerSystem(w)
    \/ WorkerCheck(w)
    \/ WorkerStore(w)
    \/ WorkerDecr(w)
    \/ WorkerNotify(w)

\* every thread that can run is eventually run, and system() returns
Fairness ==
    /\ WF_vars(EvalStep)
    /\ \A w \in 1 .. Jobs : WF_vars(WorkerStep(w))

SpecFair == InitFair /\ [][Next]_vars /\ Fairness

SpecRerun == InitRerun /\ [][Next]_vars

(***************************************************************************)
(* Properties of the build run                                             *)
(***************************************************************************)
TaskIds == 1 .. Len(heap)

\* the command of task t has run and exited
Finished(t) == heap[t].st \in {"exited", "done"}

RECURSIVE TotalDeps(_)
\* the number of dependencies the rules of a result list declare
TotalDeps(rl) ==
    IF rl = << >> THEN 0
    ELSE Len(rules[Head(rl).rule].deps) + TotalDeps(Tail(rl))

\* the dependencies the rule set declares for a concrete target x
DeclaredDeps(x) ==
    UNION { { SubstDep(rules[r].deps[d],
                       IF rules[r].target = x THEN << >>
                       ELSE ob_compare_subst(x, rules[r].target))
              : d \in 1 .. Len(rules[r].deps) }
            : r \in { q \in 1 .. Len(rules) :
                        \/ rules[q].target = x
                        \/ ob_compare_subst(x, rules[q].target) # << >> } }

RECURSIVE Reach(_, _)
Reach(set, n) ==
    IF n = 0 THEN set
    ELSE Reach(set \cup UNION { DeclaredDeps(y) : y \in set }, n - 1)

\* the dependencies of x and their descendants
Descendants(x) == Reach(DeclaredDeps(x), Cardinality(Names))

\* C1: while the recipe of a target T runs, exec_rule has been called and
\* has returned for every dependency of T, and every shell task enqueued by
\* the recipe of a dependency of T or of one of their descendants has run
\* and exited.
C1_RecipeAfterDependencies ==
    \A n \in 1 .. Len(stack) :
        stack[n].fn = "recipe" =>
            /\ stack[n].nwalk = TotalDeps(stack[n].rl)
            /\ \A t \in TaskIds :
                  heap[t].by \in Descendants(stack[n].target)
                      => Finished(t)

\* C2: once a wait_result has returned (its barrier is gone), no task
\* counted on that barrier is queued or running; and once exec_main has
\* returned, no worker holds a task.
C2_WaitResultQuiescent ==
    /\ \A c \in 1 .. Len(ctrs) :
          ~ctrs[c].live =>
              \A t \in TaskIds : heap[t].cnt = c => Finished(t)
    /\ (Len(stack) = 1 /\ (stack[1].pc # "exec_main" \/ stack[1].runs # << >>))
        =>
          \A w \in 1 .. Jobs :
              workers[w].pc # "sys"

\* C3: when every task counted on a barrier has finished and some failed,
\* the barrier's result is the status of the failing task that was first to
\* test it (`first`).
C3_FirstFailureWins ==
    \A c \in 1 .. Len(ctrs) :
        (/\ ctrs[c].first # 0
         /\ \A t \in TaskIds : heap[t].cnt = c => heap[t].st = "done")
            => ctrs[c].result = ctrs[c].first

\* C4: if a shell task has failed, then by the time the program is done
\* every task that was enqueued has been run to completion and exec_main
\* has returned non-zero.
C4_FailureCancelsNothing ==
    (/\ stack[1].pc = "done"
     /\ \E t \in TaskIds : heap[t].code # 0)
        => /\ \A t \in TaskIds : Finished(t)
           /\ \E r \in 1 .. Len(stack[1].runs) : stack[1].runs[r].ret # 0

\* some task counted on barrier c exited non-zero
BarrierFailed(c) == \E t \in TaskIds : heap[t].cnt = c /\ heap[t].code # 0

\* C5 (state part): after a dependency's exec_rule returned non-zero no
\* later dependency is walked, and a recipe runs only for a target none of
\* whose dependencies failed and on whose barrier no task failed.
C5_Inv ==
    \A n \in 1 .. Len(stack) :
        /\ stack[n].failat # 0 => stack[n].nwalk = stack[n].failat
        /\ stack[n].fn = "recipe" =>
              (stack[n].failat = 0 /\ ~BarrierFailed(stack[n].bar))

\* C5 (step part): exec_func, back from wait_result with a failed dependency
\* or a failed task on its barrier, returns non-zero to its caller.
C5_Step ==
    (/\ Top.fn = "exec_func" /\ Top.pc = "after"
     /\ (Top.failat # 0 \/ BarrierFailed(Top.bar))
     /\ stack' # stack)
        => /\ Len(stack') = Len(stack) - 1
           /\ stack'[Len(stack')].ret # 0

\* C5: a failed dependency stops the walk of T's dependencies, and a failed
\* dependency or a failed task on T's barrier keeps T's recipe from running
\* and makes exec_func(T) return non-zero.
C5_FailureStopsRecipe == []C5_Inv /\ [][C5_Step]_vars

\* C5 witness: a dependency has failed while later dependencies of the same
\* target were still to be walked
C5_Witness ==
    \E n \in 1 .. Len(stack) :
        /\ stack[n].fn = "exec_func"
        /\ stack[n].failat # 0
        /\ stack[n].failat < TotalDeps(stack[n].rl)

\* C6: the tasks are dequeued in the order they were pushed (a task's id is
\* its position in the push order).
C6_FifoDispatch == deqSeq = [k \in 1 .. Len(deqSeq) |-> k]

\* C6 witness: three tasks dequeued, by more than one worker, with a task
\* still queued behind them
C6_Witness ==
    /\ Len(deqSeq) >= 3
    /\ \E t, u \in TaskIds :
          heap[t].runner # 0 /\ heap[u].runner # 0
            /\ heap[t].runner # heap[u].runner
    /\ tasks # 0

\* the tasks a thread has taken and not finished with
RunningTasks == { t \in TaskIds : heap[t].st \in {"running", "exited"} }

\* C7: a running shell command is being run by a pool worker, one command
\* per worker, so at most Jobs commands run at once; recipe bodies are run
\* by the evaluator only (a worker is never anywhere but in thread_pool::run
\* or in a task).
C7_ShellOnWorkersOnly ==
    /\ \A t \in RunningTasks :
          /\ heap[t].runner \in 1 .. Jobs
          /\ workers[heap[t].runner].task = t
          /\ workers[heap[t].runner].pc \in {"sys", "check", "store", "decr",
                                               "stuck"}
    /\ Cardinality(RunningTasks) <= Jobs
    /\ \A w \in 1 .. Jobs :
          workers[w].pc \in {"lock", "wait", "sys", "check", "store", "decr",
                             "notify", "stuck", "exit"}
    /\ \A n \in 1 .. Len(stack) : stack[n].fn # "system"

\* C7 witness: two commands running on two workers while the evaluator is
\* inside a recipe body
C7_Witness ==
    /\ Cardinality({ t \in TaskIds : heap[t].st = "running" }) >= 2
    /\ Top.fn = "recipe"

\* C11: all resolutions of one target give the same SubRule sequence and
\* the same success-or-error outcome of find_rules, whether the cache entry
\* was empty or left by an earlier resolution.
C11_CachePureMemo ==
    \A n \in Names :
        \A h \in 1 .. Len(cache[n].hist) :
            /\ cache[n].hist[h].rlist = cache[n].hist[1].rlist
            /\ (cache[n].hist[h].out = "redefinition")
                    <=> (cache[n].hist[1].out = "redefinition")

\* T is the declared name of an action rule that has a body
IsActionTarget(t) ==
    \E r \in 1 .. Len(rules) :
        rules[r].target = t /\ rules[r].action /\ rules[r].func # 0

\* C12 (step): exec_rule/exec_func of an action target either goes on to
\* exec_func, or starts the body of an action rule of that name, or returns
\* non-zero (a redefinition, or a failed dependency).
C12_Step ==
    (/\ IsActionTarget(Top.target)
     /\ Top.fn \in {"exec_rule", "exec_func"}
     /\ Top.fn = "exec_func" => Top.pc = "after"
     /\ stack' # stack)
        => LET n == Len(stack) IN
           \/ /\ Len(stack') = n
              /\ stack'[n].fn = "exec_func"
           \/ /\ Len(stack') = n
              /\ stack'[n].fn = "recipe"
              /\ rules[stack'[n].rule].action
              /\ rules[stack'[n].rule].target = Top.target
           \/ /\ Len(stack') = n - 1
              /\ stack'[n - 1].ret # 0

\* C12: whenever an action target is executed and no dependency failed, the
\* body of the action is started, whatever files exist.
C12_ActionAlwaysRuns == [][C12_Step]_vars

\* C13: while the body of an action rule runs, every dependency declared by
\* the matched rules of its target has been passed to exec_rule by exec_list.
C13_ActionDepsWalked ==
    \A n \in 1 .. Len(stack) :
        (stack[n].fn = "recipe" /\ rules[stack[n].rule].action)
            => stack[n].nwalk = TotalDeps(stack[n].rl)

\* some rule matches t: by name, or through % (ob_compare_subst)
Matches(t) ==
    \E r \in 1 .. Len(rules) :
        \/ rules[r].target = t
        \/ ob_compare_subst(t, rules[r].target) # << >>

\* the branch the latest exec_rule(t) took
LastOutcome(c, t) == c[t].hist[Len(c[t].hist)].out

\* C15 (step): exec_rule(T) reports "no rule to run target" exactly when no
\* rule matches T and T is no file, and then returns 1 with nothing enqueued;
\* exec_func of a target with an empty match list returns 0 with nothing
\* run or enqueued.
C15_Step ==
    LET n == Len(stack)
        t == Top.target
    IN
    /\ (Top.fn = "exec_rule" /\ stack' # stack) =>
          /\ (LastOutcome(cache', t) = "no rule")
                <=> (~Matches(t) /\ ~ob_check_file(files, t))
          /\ (LastOutcome(cache', t) = "no rule") =>
                /\ Len(stack') = n - 1
                /\ stack'[n - 1].ret = 1
                /\ heap' = heap
    /\ (Top.fn = "exec_func" /\ Top.pc = "after" /\ Top.rl = << >>
            /\ stack' # stack) =>
          /\ Len(stack') = n - 1
          /\ stack'[n - 1].ret = 0
          /\ heap' = heap

\* C15: "no rule to run target" is reported exactly for a target that no
\* rule matches and that is no file; a target no rule matches that is a file
\* yields 0 without anything being run or enqueued.
C15_MissingRuleIff == [][C15_Step]_vars

\* no rule that matches t has a body
NoRecipeFor(t) ==
    \A r \in 1 .. Len(rules) :
        (\/ rules[r].target = t
         \/ ob_compare_subst(t, rules[r].target) # << >>)
            => rules[r].func = 0

\* C16: an exec_main(T) that has returned, for a T that no rule with a body
\* matches and that is no file, has reported "no rule to run target" for T
\* and returned 1.
C16_NoRecipeNoFileFails ==
    \A r \in 1 .. Len(stack[1].runs) :
        LET run == stack[1].runs[r] IN
        (NoRecipeFor(run.target) /\ ~ob_check_file(files, run.target))
            => /\ run.ret = 1
               /\ LastOutcome(cache, run.target) = "no rule"

\* C18: exec_main returns 0 or 1, and so does main.
C18_ExitCodeZeroOrOne ==
    /\ \A r \in 1 .. Len(stack[1].runs) : stack[1].runs[r].ret \in {0, 1}
    /\ stack[1].pc = "done" => stack[1].ret \in {0, 1}

\* t and everything reachable from it
Tree(t) == {t} \cup Descendants(t)

\* every name of the tree of t is a file, and no dependency is newer than a
\* target that depends on it
UpToDateTree(fs, t) ==
    \A x \in Tree(t) :
        /\ fs[x] # 0
        /\ \A d \in DeclaredDeps(x) : ~(fs[x] < fs[d])

\* no name of the tree of t is the name of an action
NoActionIn(t) == \A x \in Tree(t) : ~IsActionTarget(x)

\* C17: an exec_main(T) that started on an up-to-date tree of file targets,
\* or right after an exec_main(T) that returned 0, has enqueued no shell
\* task and returned 0.
C17_IdempotentRerun ==
    LET runs == stack[1].runs IN
    \A r \in 1 .. Len(runs) :
        (/\ NoActionIn(runs[r].target)
         /\ \/ UpToDateTree(runs[r].start.files, runs[r].target)
            \/ /\ r > 1
               /\ runs[r - 1].target = runs[r].target
               /\ runs[r - 1].ret = 0)
            => /\ runs[r].ntasks = runs[r].start.ntasks
               /\ runs[r].ret = 0

\* the filesystem once the running command of task t has exited with 0
FilesAfter(t) == [files EXCEPT ![heap[t].out] = now]

\* what the evaluator, at a point where it reads the filesystem, does next
\* when the filesystem is fs
Decision(fs) ==
    IF Top.fn = "exec_func" /\ Top.pc = "after"
    THEN {RunsRecipe(Top, fs)}
    ELSE IF Top.fn = "exec_rule"
    THEN { ExecRuleOutcome(fs, Top.target, o) :
            o \in find_rules(Top.target, cache[Top.target].rlist,
                             cache[Top.target].cap, rules) }
    ELSE {}

\* C20: what the evaluator does next (which branch exec_rule takes, whether
\* exec_func runs the recipe) is the same whether or not a command that is
\* running on a worker completes before the evaluator's step, so the
\* targets visited, recipes invoked and commands enqueued do not depend on
\* the scheduling of the workers.
C20_ScheduleIndependent ==
    \A t \in TaskIds :
        (heap[t].st = "running" /\ 0 \in heap[t].codes)
            => Decision(files) = Decision(FilesAfter(t))

\* C21 (step): a worker leaves thread_pool::run only when the queue is empty
C21_Step ==
    \A w \in 1 .. Jobs :
        (workers[w].pc # "exit" /\ workers'[w].pc = "exit") => tasks = 0

\* C21 (state): once destroy has returned, every pushed task has been run
C21_Inv ==
    stack[1].pc = "done" => \A t \in TaskIds : heap[t].st = "done"

\* C21: a pool worker terminates only when it observes running = false
\* while the queue is empty; so every task pushed before destroy() is
\* called has been executed when destroy() returns.
C21_DrainBeforeExit == []C21_Inv /\ [][C21_Step]_vars

Stuck == { w \in 1 .. Jobs : workers[w].pc = "stuck" }

\* C22 (state): after destroy has set running to false it stays false; once
\* the notification is out no worker waits; destroy returns only when every
\* worker has exited; destroy() called again then returns at once and
\* leaves running as it is
C22_Inv ==
    /\ stack[1].pc \in {"notify_all", "join", "done"} => ~running
    /\ stack[1].pc \in {"join", "done"} => Waiting = {}
    /\ stack[1].pc = "done" =>
          /\ \A w \in 1 .. Jobs : workers[w].pc = "exit"
          /\ PoolDestroy(running) = [running |-> running, pc |-> "done"]

\* C22: destroy() sets running to false, wakes every waiting worker and
\* returns only after every worker has exited; it returns whenever the tasks
\* being run return; a second call changes nothing.
C22_DestroyJoins ==
    /\ []C22_Inv
    /\ (stack[1].pc = "destroy") ~> (stack[1].pc = "done" \/ Stuck # {})

\* C22 witness: destroy has returned after the workers ran two commands
C22_Witness ==
    /\ stack[1].pc = "done"
    /\ Len(heap) >= 2
    /\ \A t \in TaskIds : heap[t].st = "done"

\* the workers that are about to use the barrier of the task they run:
\* get_result (read only if system() failed), decr, or decr's notify_all
Touching ==
    { w \in 1 .. Jobs :
        \/ workers[w].pc \in {"store", "decr", "notify"}
        \/ workers[w].pc = "check" /\ workers[w].ret # 0 }

\* C24: when the wrapped function returned 0 and wait_result has returned
\* from ctr.wait(), no worker has an access to that barrier left to do, the
\* notify_all of decr included.
C24_NoTouchAfterWait ==
    \A w \in Touching : ~ctrs[heap[workers[w].task].cnt].waited

\* the tasks pushed since the exec_main that is running, or that ran last,
\* was entered
TasksOfRun ==
    { t \in TaskIds : stack[1].start # << >> /\ t > stack[1].start.ntasks }

\* C25: within one exec_main the recipe of a file target is invoked at most
\* once: no shell command of its body is pushed a second time, so no two
\* tasks that run the same command for the same target exist, queued,
\* running or finished.
C25_RecipeOncePerTarget ==
    \A t1, t2 \in TasksOfRun :
        (/\ t1 < t2
         /\ heap[t1].out = heap[t2].out
         /\ ~IsActionTarget(heap[t1].out))
            => heap[t1].k # heap[t2].k

\* the targets of the exec_rule calls that are on the stack, outermost
\* first (an exec_rule that has resolved its target goes on as exec_func)
RuleChain ==
    [n \in { m \in 1 .. Len(stack) :
                stack[m].fn \in {"exec_rule", "exec_func"} } |->
        stack[n].target]

\* C26: exec_main terminates for every finite rule set, cyclic ones too: the
\* recursion exec_rule -> exec_func -> exec_list -> exec_rule never enters a
\* target that it is already inside of (where it would repeat itself: the
\* inner call finds the same cached rule list and walks the same
\* dependencies).
C26_RecursionFinite ==
    \A m, n \in DOMAIN RuleChain : m < n => RuleChain[m] # RuleChain[n]

\* C27: for an acyclic rule set whose commands terminate, exec_main
\* eventually returns under fair scheduling: the evaluator, once inside
\* exec_main, gets back to main (no lost wake-up of the barrier's wait, no
\* deadlock of evaluator and workers).
C27_ExecMainReturns == (Len(stack) > 1) ~> (Len(stack) = 1)

\* the rank of a task's status on its way through the pool
Rank(st) ==
    CASE st = "queued" -> 0 [] st = "running" -> 1
      [] st = "exited" -> 2 [] st = "done" -> 3

\* the workers that are inside a task
InTask == { w \in 1 .. Jobs :
              workers[w].pc \in {"sys", "check", "store", "decr", "notify",
                                 "stuck"} }

\* C28 (state): a task is dequeued by one worker only: it is in the
\* dequeue record once, from the moment it stops being queued, and no two
\* workers hold the same task
C28_Inv ==
    /\ \A i, j \in 1 .. Len(deqSeq) : i # j => deqSeq[i] # deqSeq[j]
    /\ \A t \in TaskIds :
          heap[t].st # "queued" <=> \E i \in 1 .. Len(deqSeq) : deqSeq[i] = t
    /\ \A v, w \in InTask : v # w => workers[v].task # workers[w].task
    /\ \A w \in InTask : heap[workers[w].task].runner = w

\* C28 (step): a task is executed once: its status only advances, by the
\* worker that dequeued it, and system() runs on a task not yet executed
C28_Step ==
    \A t \in TaskIds :
        /\ Rank(heap'[t].st) >= Rank(heap[t].st)
        /\ Rank(heap'[t].st) <= Rank(heap[t].st) + 1
        /\ heap[t].st # "queued" => heap'[t].runner = heap[t].runner
        /\ Rank(heap[t].st) >= 2 => heap'[t].code = heap[t].code

\* C28 (progress): a queued task gets executed, unless the pool is
\* destroyed first or every worker is held by a task that never returns
C28_Live ==
    \A t \in 1 .. MaxTasks :
        (t \in TaskIds /\ heap[t].st = "queued")
            ~> \/ t \in TaskIds /\ Finished(t)
               \/ ~running
               \/ Stuck = 1 .. Jobs

Outstanding(c) == { t \in TaskIds : heap[t].cnt = c /\ heap[t].st # "done" }

\* 1 while the shell command has counted a task on c and not yet pushed it
InFlight(c) ==
    IF Top.fn = "recipe" /\ Top.pc = "push" /\ Top.ctr = c THEN 1 ELSE 0

\* C29 as stated: in every reachable state the counter of a barrier equals
\* the number of shell tasks counted on it that are enqueued and not yet
\* finished, and is never negative.
C29_CounterEqualsOutstanding ==
    \A c \in 1 .. Len(ctrs) :
        ctrs[c].live =>
            /\ ctrs[c].counter = Cardinality(Outstanding(c))
            /\ ctrs[c].counter >= 0

\* C29 amended: the counter equals the number of tasks counted on the
\* barrier that are enqueued and not yet finished, plus one while the shell
\* command is between its incr and its push; it is never negative.
C29_CounterCountsOutstanding ==
    \A c \in 1 .. Len(ctrs) :
        ctrs[c].live =>
            /\ ctrs[c].counter = Cardinality(Outstanding(c)) + InFlight(c)
            /\ ctrs[c].counter >= 0

\* C29 witness: a barrier with two tasks outstanding and one finished
C29_Witness ==
    \E c \in 1 .. Len(ctrs) :
        /\ ctrs[c].live
        /\ ctrs[c].counter = 2
        /\ Cardinality(Outstanding(c)) = 2
        /\ \E t \in TaskIds : heap[t].cnt = c /\ heap[t].st = "done"

\* C30 (step): a result that is non-zero stays non-zero
C30_Step ==
    \A c \in 1 .. Len(ctrs) : ctrs[c].result # 0 => ctrs'[c].result # 0

\* C30 (state): when every task counted on a barrier has finished, the
\* result is non-zero exactly if one of them exited non-zero
C30_Inv ==
    \A c \in 1 .. Len(ctrs) :
        (ctrs[c].live /\ Outstanding(c) = {} /\ InFlight(c) = 0) =>
            (ctrs[c].result # 0 <=>
                \E t \in TaskIds : heap[t].cnt = c /\ heap[t].code # 0)

\* C30: a barrier's result is a latch: once non-zero it never returns to
\* zero, and when all tasks counted on the barrier have finished it is
\* non-zero if and only if at least one of them exited non-zero, under every
\* interleaving of the workers.
C30_ResultLatch == []C30_Inv /\ [][C30_Step]_vars

\* C30 witness: a barrier whose two tasks have finished, one with status 0
\* after the other had failed and stored its status
C30_Witness ==
    \E c \in 1 .. Len(ctrs) : \E t, u \in TaskIds :
        /\ ctrs[c].live /\ Outstanding(c) = {} /\ ctrs[c].result # 0
        /\ heap[t].cnt = c /\ heap[u].cnt = c
        /\ heap[t].code # 0 /\ heap[u].code = 0 /\ heap[u].st = "done"
        /\ t < u

\* C32 (step): only the evaluator changes the barrier stack, by a push or
\* a pop of its last element; a return of wait_result leaves the stack as
\* it was on entry; a step of a worker leaves the barrier stack, the rules
\* and the resolver cache alone
C32_Step ==
    /\ counters' # counters =>
            /\ stack' # stack
            /\ \/ \E c \in 1 .. Len(ctrs') : counters' = Append(counters, c)
               \/ counters' = SubSeq(counters, 1, Len(counters) - 1)
    /\ (Top.fn = "wait_result" /\ Len(stack') < Len(stack)) =>
            counters' = Top.entry
    /\ (\E w \in 1 .. Jobs : WorkerStep(w)) =>
            UNCHANGED <<counters, rules, cache>>

\* C32: the barrier stack is modified only by the evaluator thread and is
\* strictly last-in-first-out: when wait_result returns, with a zero or a
\* non-zero result, the stack is what it was on entry; the worker threads
\* never modify the barrier stack, the rule registry or the resolver cache.
C32_BarrierStackLifo == [][C32_Step]_vars

\* C32 witness: the wait_result of an exec_func nested in another one has
\* returned non-zero without waiting, after a worker ran a command; the
\* barrier stack holds the barrier of the caller again
C32_Witness ==
    /\ Top.fn = "exec_func" /\ Top.pc = "after" /\ Top.ret # 0
    /\ Top.bar # 0 /\ ~ctrs[Top.bar].waited
    /\ counters # << >>
    /\ \A k \in 1 .. Len(counters) : counters[k] < Top.bar
    /\ \E t \in 1 .. Len(heap) : heap[t].st = "done"

(***************************************************************************)
(* The resolver run: find_rules on a fresh cache entry, for every rule     *)
(* sequence over RulePool of at most MaxRules rules.                       *)
(***************************************************************************)
ResolveTargets == { <<"a", "b">>, <<"a", "a", "b">> }

PoolTargets ==
    { <<"a", "b">>, <<"%">>, <<"a", "%">>, <<"%", "b">>, <<"a", "%", "b">> }

\* rule (with and without a body), depend and action declarations
RulePool ==
    { Rule(t, << >>, f, FALSE) : t \in PoolTargets, f \in {0, 1} }
        \cup { Rule(t, << >>, 1, TRUE) : t \in PoolTargets }

RuleSeqs == UNION { [1 .. n -> RulePool] : n \in 1 .. MaxRules }

InitResolve ==
    /\ rules \in RuleSeqs
    /\ frTarget \in ResolveTargets
    /\ fr = FrStart(<< >>, 0)
    /\ goal = <<frTarget>>
    /\ files = FilesWith(<< >>)
    /\ now = 2
    /\ cache = NoCache
    /\ counters = << >>
    /\ ctrs = << >>
    /\ stack = <<MainFrame>>
    /\ InitPool
    /\ aliases = NoAliases

\* one iteration of the scan loop of find_rules
FindRulesStep ==
    /\ ~FrDone(fr, rules)
    /\ fr' \in FindRulesIter(fr, frTarget, rules)
    /\ UNCHANGED <<rules, frTarget, execVars, poolVars>>

NextResolve == FindRulesStep

SpecResolve == InitResolve /\ [][NextResolve]_vars

(***************************************************************************)
(* What the rule set says about a target, independently of the scan        *)
(***************************************************************************)
\* the recipe-bearing rules whose target equals t
ExactRecipeRules(t) ==
    { i \in 1 .. Len(rules) : rules[i].target = t /\ rules[i].func # 0 }

\* the recipe-bearing rules that match t through %
PatternRecipeRules(t) ==
    { i \in 1 .. Len(rules) :
        /\ rules[i].target # t
        /\ rules[i].func # 0
        /\ ob_compare_subst(t, rules[i].target) # << >> }

CaptureLen(t, i) == Len(ob_compare_subst(t, rules[i].target))

\* the rule whose recipe exec_func would run for the resolved list (0: none)
SelectedRule(st) ==
    LET k == FirstFunc(st.rlist, rules, 1) IN
    IF k = 0 THEN 0 ELSE st.rlist[k].rule

ResolveDone == FrDone(fr, rules)

\* C8: with exactly two recipe-bearing pattern rules matching the target and
\* no recipe-bearing exact rule, the rule with the shorter capture supplies
\* the recipe whatever the declaration order, and equal captures are
\* reported as a redefinition.
C8_ShortestWildcardWins ==
    (ResolveDone /\ ExactRecipeRules(frTarget) = {}
        /\ Cardinality(PatternRecipeRules(frTarget)) = 2) =>
    \A p1, p2 \in PatternRecipeRules(frTarget) :
        /\ (CaptureLen(frTarget, p1) < CaptureLen(frTarget, p2)) =>
                (fr.ret = 0 /\ SelectedRule(fr) = p1)
        /\ (p1 # p2 /\ CaptureLen(frTarget, p1) = CaptureLen(frTarget, p2))
                => fr.ret = 1

\* C9: a single recipe-bearing exact rule is the one selected, whatever
\* pattern rules match and whatever the declaration order.
C9_ExactBeatsPattern ==
    (ResolveDone /\ Cardinality(ExactRecipeRules(frTarget)) = 1) =>
    (fr.ret = 0 /\ SelectedRule(fr) \in ExactRecipeRules(frTarget))

\* the redefinition condition of the rule set: two exact recipes, or no exact
\* recipe and two pattern recipes sharing the shortest capture length
IsRedefinition(t) ==
    \/ Cardinality(ExactRecipeRules(t)) >= 2
    \/ /\ ExactRecipeRules(t) = {}
       /\ \E p1, p2 \in PatternRecipeRules(t) :
            /\ p1 # p2
            /\ CaptureLen(t, p1) = CaptureLen(t, p2)
            /\ \A q \in PatternRecipeRules(t) :
                    CaptureLen(t, p1) <= CaptureLen(t, q)

\* C10: resolution reports "redefinition of rule" exactly when the rule set
\* has a redefinition for the target, independently of declaration order.
C10_RedefinitionIff ==
    ResolveDone => ((fr.ret = 1) <=> IsRedefinition(frTarget))

\* C14: the rule whose body is selected for a target, if it is an action
\* rule, has that target as its declared name.
C14_ActionMatchesExactly ==
    (ResolveDone /\ fr.ret = 0 /\ SelectedRule(fr) # 0
        /\ rules[SelectedRule(fr)].action)
            => rules[SelectedRule(fr)].target = frTarget

(***************************************************************************)
(* The substitution run: exec_list splices a capture into a pattern, and   *)
(* ob_compare_subst matches the result against the pattern.                *)
(***************************************************************************)
Alphabet == {"a", "b", "%"}

Strings(n) == UNION { [1 .. k -> Alphabet] : k \in 1 .. n }

\* a pattern is a name with a % in it
Patterns == { pat \in Strings(MaxPat) : Find(pat, "%") # 0 }

\* a capture is at least one character long
Captures == Strings(MaxSub)

InitSubst ==
    /\ \E pat \in Patterns : rules = <<Rule(pat, <<pat>>, 1, FALSE)>>
    /\ \E sub \in Captures :
          fr = [pc |-> "subst", sub |-> sub, out |-> << >>]
    /\ frTarget = << >>
    /\ goal = << >>
    /\ files = FilesWith(<< >>)
    /\ now = 2
    /\ cache = NoCache
    /\ counters = << >>
    /\ ctrs = << >>
    /\ stack = <<MainFrame>>
    /\ InitPool
    /\ aliases = NoAliases

\* exec_list: atgt is the dependency with sr.sub in place of its %
SubstStep ==
    /\ fr.pc = "subst"
    /\ frTarget' = SubstDep(rules[1].deps[1], fr.sub)
    /\ fr' = [fr EXCEPT !.pc = "compare"]
    /\ UNCHANGED <<rules, execVars, poolVars>>

\* find_rules: sub = ob_compare_subst(target, rule.target)
CompareStep ==
    /\ fr.pc = "compare"
    /\ fr' = [fr EXCEPT !.pc = "done",
                        !.out = ob_compare_subst(frTarget, rules[1].target)]
    /\ UNCHANGED <<rules, frTarget, execVars, poolVars>>

NextSubst == SubstStep \/ CompareStep

SpecSubst == InitSubst /\ [][NextSubst]_vars

\* C19: if splicing the capture s into the pattern P gave T, then
\* ob_compare_subst(T, P) gives s.
C19_PatternRoundTrip ==
    fr.pc = "done" => fr.out = fr.sub

\* C19 witness: a round trip through a pattern with text on both sides of
\* its %, with a capture of two characters one of which is a %
C19_Witness ==
    /\ fr.pc = "done"
    /\ Len(fr.sub) = 2 /\ Find(fr.sub, "%") # 0
    /\ Find(rules[1].target, "%") = 2 /\ Len(rules[1].target) = 3
    /\ fr.out = fr.sub

(***************************************************************************)
(* The glob run: the glob command on one list item, for every token over   *)
(* GlobAlphabet and every listing of the current directory and of its      *)
(* subdirectory s.                                                         *)
(***************************************************************************)
Star == <<"*">>
Dot == <<".">>
SubDir == <<"s">>

\* ostd::find_last(s, c): position of the last c in s, 0 when there is none
FindLast(s, c) ==
    IF { i \in 1 .. Len(s) : s[i] = c } = {} THEN 0
    ELSE CHOOSE i \in 1 .. Len(s) :
            s[i] = c /\ \A j \in (i + 1) .. Len(s) : s[j] # c

\* s without its first n characters
Drop(s, n) == SubSeq(s, n + 1, Len(s))

IsPrefix(p, s) == Len(p) <= Len(s) /\ SubSeq(s, 1, Len(p)) = p

RECURSIVE ob_get_path_parts(_)
\* ob_get_path_parts: the literal pieces of elem and a "*" for every star
ob_get_path_parts(elem) ==
    LET star == Find(elem, "*") IN
    IF star = 0
    THEN IF elem = << >> THEN << >> ELSE <<elem>>
    ELSE LET ep == SubSeq(elem, 1, star - 1) IN
         (IF ep = << >> THEN << >> ELSE <<ep>>)
            \o <<Star>> \o ob_get_path_parts(Drop(elem, star))

RECURSIVE SkipUntil(_, _)
\* while (fn.size() > elem.size()) { if (prefix == elem) break; ++fn; }
SkipUntil(fn, elem) ==
    IF Len(fn) > Len(elem) /\ ~IsPrefix(elem, fn)
    THEN SkipUntil(Tail(fn), elem)
    ELSE fn

RECURSIVE SkipStars(_, _)
\* while (!it.empty() && it.front() == "*") ++it;
SkipStars(parts, it) ==
    IF it <= Len(parts) /\ parts[it] = Star
    THEN SkipStars(parts, it + 1)
    ELSE it

RECURSIVE PathMatchesFrom(_, _, _)
\* the loop of ob_path_matches with the iterator at parts[it]
PathMatchesFrom(fn, parts, it) ==
    IF it > Len(parts) THEN fn = << >>
    ELSE LET star == parts[it] = Star
             nx == IF star THEN SkipStars(parts, it + 1) ELSE it
         IN IF star /\ nx > Len(parts) THEN TRUE
            ELSE LET elem == parts[nx]
                     f == IF star THEN SkipUntil(fn, elem) ELSE fn
                 IN IF ~IsPrefix(elem, f) THEN FALSE
                    ELSE PathMatchesFrom(Drop(f, Len(elem)), parts, nx + 1)

ob_path_matches(fn, parts) == PathMatchesFrom(fn, parts, 1)

RECURSIVE Normalise(_)
\* the path the system resolves: a leading ./ names the same entry
Normalise(path) ==
    IF IsPrefix(<<".", "/">>, path) THEN Normalise(Drop(path, 2)) ELSE path

\* ostd::directory_stream d{dir}: the entries of dir in the order the
\* system lists them, or not open
DirStream(fs, dir) ==
    LET d == Normalise(dir) IN
    IF d = Dot THEN [open |-> TRUE, list |-> fs.cwd \o <<SubDir>>]
    ELSE IF d = SubDir THEN [open |-> TRUE, list |-> fs.sub]
    ELSE [open |-> FALSE, list |-> << >>]

\* ostd::file_stream{afn, READ}.is_open(): afn names an entry; with a
\* trailing slash it must be a directory
Readable(fs, afn) ==
    LET p == Normalise(afn)
        inCwd == { fs.cwd[i] : i \in 1 .. Len(fs.cwd) }
        inSub == { SubDir \o <<"/">> \o fs.sub[i] : i \in 1 .. Len(fs.sub) }
    IN IF p # << >> /\ p[Len(p)] = "/"
       THEN SubSeq(p, 1, Len(p) - 1) \in {SubDir, Dot}
       ELSE p \in inCwd \cup inSub \cup {SubDir, Dot}

\* ob_expand_dir: std::string afn((dir == ".") ? "" : "./");
DirPrefix(dir) == IF dir = Dot THEN << >> ELSE <<".", "/">>

RECURSIVE ob_expand_glob(_, _, _, _)
RECURSIVE ExpandDirLoop(_, _, _, _, _, _, _)
\* the loop of ob_expand_dir over the entries list[i..]; st is ret (the
\* items of the space-separated result) and appended
ExpandDirLoop(fs, st, dir, parts, slash, list, i) ==
    IF i > Len(list) THEN st
    ELSE LET fn == list[i]
             afn == DirPrefix(dir) \o fn
             add(path) == [ret |-> Append(st.ret, path), appended |-> TRUE]
             st1 ==
               IF ~ob_path_matches(fn, parts) THEN st
               ELSE IF slash = << >> THEN add(afn)
               ELSE IF Find(Tail(slash), "*") # 0
               THEN IF st.appended THEN st
                    ELSE LET g == ob_expand_glob(fs, st.ret, afn \o slash,
                                                 FALSE)
                         IN [ret |-> g.ret, appended |-> g.found]
               ELSE IF Readable(fs, afn \o slash) THEN add(afn \o slash)
               ELSE st
         IN ExpandDirLoop(fs, st1, dir, parts, slash, list, i + 1)

\* ob_expand_dir: the matching entries of dir appended to ret
ob_expand_dir(fs, ret, dir, parts, slash) ==
    LET d == DirStream(fs, dir)
        st == [ret |-> ret, appended |-> FALSE]
    IN IF ~d.open THEN st
       ELSE ExpandDirLoop(fs, st, dir, parts, slash, d.list, 1)

\* ob_expand_glob: ret with the expansion of src appended, and whether an
\* entry matched
ob_expand_glob(fs, ret, src, ne) ==
    LET star == Find(src, "*")
        asis(r) == [ret |-> IF ne THEN r ELSE Append(r, src),
                    found |-> FALSE]
    IN IF star = 0 THEN asis(ret)
       ELSE LET prestar == SubSeq(src, 1, star - 1)
                slash == FindLast(prestar, "/")
                dir == IF slash = 0 THEN Dot ELSE SubSeq(src, 1, slash - 1)
                fnpre == SubSeq(src, slash + 1, star - 1)
                rest == Drop(src, star)
                ns == Find(rest, "/")
                nslash == IF ns = 0 THEN << >> ELSE Drop(rest, ns - 1)
                fnpost == IF ns = 0 THEN rest ELSE SubSeq(rest, 1, ns - 1)
                parts == ob_get_path_parts(fnpre \o Star \o fnpost)
                d == ob_expand_dir(fs, ret, dir, parts, nslash)
            IN IF d.appended THEN [ret |-> d.ret, found |-> TRUE]
               ELSE asis(d.ret)

GlobAlphabet == {"a", "b", "*"}

GlobStrings(n) == UNION { [1 .. k -> GlobAlphabet] : k \in 1 .. n }

\* a token is a name or a pattern, alone, under s/ or under */
Tokens ==
    { pre \o pat : pre \in {<< >>, SubDir \o <<"/">>, <<"*", "/">>},
                   pat \in GlobStrings(MaxGlob) }

EntryNames == { <<"a">>, <<"b">>, <<"a", "b">>, <<"b", "a">> }

\* a directory lists each of its entries once, in an order of its own
Listings ==
    { l \in UNION { [1 .. k -> EntryNames] : k \in 0 .. MaxEntries } :
        \A i, j \in 1 .. Len(l) : i # j => l[i] # l[j] }

InitGlob ==
    /\ \E tok \in Tokens, cwd \in Listings, sub \in Listings :
          fr = [pc |-> "glob", items |-> <<tok>>, token |-> << >>,
                fs |-> [cwd |-> cwd, sub |-> sub], ret |-> << >>]
    /\ rules = << >>
    /\ frTarget = << >>
    /\ goal = << >>
    /\ files = FilesWith(<< >>)
    /\ now = 2
    /\ cache = NoCache
    /\ counters = << >>
    /\ ctrs = << >>
    /\ stack = <<MainFrame>>
    /\ InitPool
    /\ aliases = NoAliases

\* the glob command: while (p.parse()) ob_expand_glob(ret, p.get_item());
GlobItem ==
    /\ fr.pc = "glob"
    /\ fr.items # << >>
    /\ fr' = [fr EXCEPT
                !.items = Tail(@),
                !.token = Head(fr.items),
                !.ret = ob_expand_glob(fr.fs, fr.ret, Head(fr.items),
                                       FALSE).ret]
    /\ UNCHANGED <<rules, frTarget, execVars, poolVars>>

\* the glob command: res.set_str(std::move(ret));
GlobReturn ==
    /\ fr.pc = "glob"
    /\ fr.items = << >>
    /\ fr' = [fr EXCEPT !.pc = "done"]
    /\ UNCHANGED <<rules, frTarget, execVars, poolVars>>

NextGlob == GlobItem \/ GlobReturn

SpecGlob == InitGlob /\ [][NextGlob]_vars

\* the directory part and the pattern of a token: the text before and
\* after its last slash
TokenDir(tok) == SubSeq(tok, 1, FindLast(tok, "/") - 1)
TokenPattern(tok) == Drop(tok, FindLast(tok, "/"))

\* the entries of a listing that match a pattern, each after prefix
MatchesIn(list, pat, prefix) ==
    { prefix \o list[i] :
        i \in { j \in 1 .. Len(list) :
                  ob_path_matches(list[j], ob_get_path_parts(pat)) } }

\* what the claim lets glob emit for a token: for dir/pattern the matching
\* entries of dir after dir/, for a pattern alone the bare matching entries
\* of the current directory; the token itself when nothing matches
Expected(fs, tok) ==
    LET hit == IF FindLast(tok, "/") = 0
               THEN MatchesIn(DirStream(fs, Dot).list, tok, << >>)
               ELSE MatchesIn(DirStream(fs, TokenDir(tok)).list,
                              TokenPattern(tok),
                              TokenDir(tok) \o <<"/">>)
    IN IF hit = {} THEN {tok} ELSE hit

\* C23: every path glob emits for a token dir/pattern is an existing entry
\* of dir that matches the pattern, prefixed by dir/; a token with no
\* directory part yields the bare matching entry names of the current
\* directory.
C23_GlobPaths ==
    (/\ fr.pc = "done"
     /\ Find(TokenPattern(fr.token), "*") # 0
     /\ Find(TokenDir(fr.token), "*") = 0)
        => { fr.ret[i] : i \in 1 .. Len(fr.ret) } \subseteq
               Expected(fr.fs, fr.token)

(***************************************************************************)
(* The matching run: ob_path_matches on the parts of one segment pattern   *)
(* and one entry name, for every pattern over GlobAlphabet of at most      *)
(* MaxGlob characters and every name of at most MaxName characters.        *)
(***************************************************************************)
SegmentNames == UNION { [1 .. k -> {"a", "b"}] : k \in 1 .. MaxName }

InitMatch ==
    /\ \E pat \in GlobStrings(MaxGlob), name \in SegmentNames :
          fr = [pc |-> "parts", pat |-> pat, name |-> name,
                parts |-> << >>, out |-> FALSE]
    /\ rules = << >>
    /\ frTarget = << >>
    /\ goal = << >>
    /\ files = FilesWith(<< >>)
    /\ now = 2
    /\ cache = NoCache
    /\ counters = << >>
    /\ ctrs = << >>
    /\ stack = <<MainFrame>>
    /\ InitPool
    /\ aliases = NoAliases

\* ob_expand_glob: ob_get_path_parts(parts, ...)
PartsStep ==
    /\ fr.pc = "parts"
    /\ fr' = [fr EXCEPT !.pc = "match", !.parts = ob_get_path_parts(fr.pat)]
    /\ UNCHANGED <<rules, frTarget, execVars, poolVars>>

\* ob_expand_dir: if (!ob_path_matches(fn, parts)) continue;
MatchStep ==
    /\ fr.pc = "match"
    /\ fr' = [fr EXCEPT !.pc = "done",
                        !.out = ob_path_matches(fr.name, fr.parts)]
    /\ UNCHANGED <<rules, frTarget, execVars, poolVars>>

NextMatch == PartsStep \/ MatchStep

SpecMatch == InitMatch /\ [][NextMatch]_vars

RECURSIVE GlobMatch(_, _)
\* standard glob matching of a name against a segment pattern: some
\* assignment of a possibly empty string to each * makes them equal
GlobMatch(name, pat) ==
    IF pat = << >> THEN name = << >>
    ELSE IF Head(pat) = "*"
    THEN \E k \in 0 .. Len(name) : GlobMatch(Drop(name, k), Tail(pat))
    ELSE name # << >> /\ Head(name) = Head(pat)
                      /\ GlobMatch(Tail(name), Tail(pat))

\* C40: ob_path_matches(name, parts) is true exactly when name matches the
\* segment pattern under standard glob semantics.
C40_MatchesIsGlob ==
    fr.pc = "done" => (fr.out <=> GlobMatch(fr.name, fr.pat))

\* the paths that match a token */pattern: the entries of the one
\* subdirectory that match the pattern, each after s/
DeepMatches(fs, pat) == MatchesIn(fs.sub, pat, SubDir \o <<"/">>)

\* C39: for a token with * in more than one path segment glob recurses
\* into every entry that matches the first wildcard segment: the output
\* lists every path that matches the whole token and only such paths, and
\* no unexpanded pattern when at least one path matches.
C39_DeepGlob ==
    (/\ fr.pc = "done"
     /\ TokenDir(fr.token) = Star
     /\ Find(TokenPattern(fr.token), "*") # 0
     /\ DeepMatches(fr.fs, TokenPattern(fr.token)) # {})
        => { fr.ret[i] : i \in 1 .. Len(fr.ret) }
              = DeepMatches(fr.fs, TokenPattern(fr.token))

(***************************************************************************)
(* The comparison run: ob_compare_subst on every name of at most MaxExp    *)
(* characters and every rule target of at most MaxPat characters, with or  *)
(* without a %.                                                            *)
(***************************************************************************)
InitCompare ==
    /\ \E pat \in Strings(MaxPat), e \in Strings(MaxExp) :
          /\ rules = <<Rule(pat, << >>, 1, FALSE)>>
          /\ frTarget = e
    /\ fr = [pc |-> "compare", sub |-> << >>, out |-> << >>]
    /\ goal = << >>
    /\ files = FilesWith(<< >>)
    /\ now = 2
    /\ cache = NoCache
    /\ counters = << >>
    /\ ctrs = << >>
    /\ stack = <<MainFrame>>
    /\ InitPool
    /\ aliases = NoAliases

\* a comparison that takes everything after the part before the % as the
\* capture
CompareAnyPrefixOnly ==
    /\ fr.pc = "compare"
    /\ LET rep == Find(rules[1].target, "%")
           fp == SubSeq(rules[1].target, 1, rep - 1)
       IN fr' = [fr EXCEPT
                   !.pc = "done",
                   !.out = IF rep # 0 /\ Len(frTarget) > Len(fp)
                              /\ IsPrefix(fp, frTarget)
                           THEN Drop(frTarget, Len(fp))
                           ELSE << >>]
    /\ UNCHANGED <<rules, frTarget, execVars, poolVars>>

\* find_rules: sub = ob_compare_subst(target, rule.target), for any target
CompareAny ==
    /\ fr.pc = "compare"
    /\ fr' = [fr EXCEPT !.pc = "done",
                        !.out = ob_compare_subst(frTarget, rules[1].target)]
    /\ UNCHANGED <<rules, frTarget, execVars, poolVars>>

\* the result has been used: the scan goes on to the next rule
CompareNext ==
    /\ fr.pc = "done"
    /\ fr' = [fr EXCEPT !.pc = "next"]
    /\ UNCHANGED <<rules, frTarget, execVars, poolVars>>

NextCompare == CompareAny \/ CompareNext

SpecCompare == InitCompare /\ [][NextCompare]_vars

\* the strings c of at least one character with e = pre c post, where the
\* pattern is pre%post split at its first %; none if it has no %
CapturesOf(e, pat) ==
    LET rep == Find(pat, "%")
        pre == SubSeq(pat, 1, rep - 1)
        post == Drop(pat, rep)
    IN IF rep = 0 THEN {}
       ELSE { c \in { SubSeq(e, i, j) : i, j \in 1 .. Len(e) } :
                c # << >> /\ pre \o c \o post = e }

\* C38: ob_compare_subst(expanded, P) returns the capture c if and only if
\* expanded = pre c post with c of at least one character, c being the
\* only such string, and reports no match (the empty range) otherwise,
\* also whenever P has no %.
C38_CompareSubstExact ==
    fr.pc = "done" =>
        LET cs == CapturesOf(frTarget, rules[1].target) IN
        /\ Cardinality(cs) <= 1
        /\ fr.out # << >> => cs = {fr.out}
        /\ fr.out = << >> => cs = {}

\* C38 witness: a capture of two characters out of a name that has text
\* before and after it, from a pattern with a second % in it
C38_Witness ==
    /\ fr.pc = "done"
    /\ Len(fr.out) = 2
    /\ Find(rules[1].target, "%") = 2
    /\ frTarget[Len(frTarget)] = "%"
    /\ Len(frTarget) = 4

(***************************************************************************)
(* The decision run: exec_func has walked the dependencies of t with       *)
(* result ret and decides whether to run the recipe, for every file table  *)
(* over t and its dependencies.                                            *)
(***************************************************************************)
MaxTime == 2

FileStates == {-1} \cup (0 .. MaxTime)

DepLists == {<< >>, <<Ao>>, <<Ao, Bo>>}

InitDecide ==
    /\ \E deps \in DepLists, func \in {0, 1}, act \in BOOLEAN :
          rules = <<Rule(Tt, deps, func, act)>>
    /\ \E ret \in {0, 1} :
          fr = [pc |-> "decide", out |-> FALSE,
                f |-> [NoFrame EXCEPT !.fn = "exec_func", !.pc = "after",
                                      !.target = Tt,
                                      !.rl = <<SubRule(<< >>, 1)>>,
                                      !.subdeps = rules[1].deps,
                                      !.ret = ret]]
    /\ \E t \in FileStates, a \in FileStates, b \in FileStates :
          files = FilesWith((Tt :> t) @@ (Ao :> a) @@ (Bo :> b))
    /\ frTarget = Tt
    /\ goal = Tt
    /\ now = MaxTime + 1
    /\ cache = NoCache
    /\ counters = << >>
    /\ ctrs = << >>
    /\ stack = <<MainFrame>>
    /\ InitPool
    /\ aliases = NoAliases

\* exec_func: if ((!ret && (act || ob_check_exec(tname, subdeps))) && func)
DecideStep ==
    /\ fr.pc = "decide"
    /\ fr' = [fr EXCEPT !.pc = "done", !.out = RunsRecipe(fr.f, files)]
    /\ UNCHANGED <<rules, frTarget, execVars, poolVars>>

DecideNext ==
    /\ fr.pc = "done"
    /\ fr' = [fr EXCEPT !.pc = "next"]
    /\ UNCHANGED <<rules, frTarget, execVars, poolVars>>

NextDecide == DecideStep \/ DecideNext

SpecDecide == InitDecide /\ [][NextDecide]_vars

\* C35: when the dependencies of t succeeded and the recipe chosen is not an
\* action, the recipe is run exactly when the file t is missing, or a
\* dependency file is missing, or the timestamp of t is zero, or the mtime
\* of some dependency is strictly greater than that of t; equal mtimes do
\* not run it.
C35_RunIffOutOfDate ==
    (fr.pc = "done" /\ fr.f.ret = 0 /\ rules[1].func # 0 /\ ~rules[1].action)
        => (fr.out <=>
                \/ files[Tt] = 0
                \/ \E d \in 1 .. Len(rules[1].deps) :
                      files[rules[1].deps[d]] = 0
                \/ get_ts(files, Tt) = 0
                \/ \E d \in 1 .. Len(rules[1].deps) :
                      get_ts(files, rules[1].deps[d]) > get_ts(files, Tt))

\* t and a.o exist with equal mtimes, b.o is older: the recipe is not run
C35_Witness ==
    /\ fr.pc = "done" /\ fr.f.ret = 0
    /\ rules[1].func # 0 /\ ~rules[1].action
    /\ rules[1].deps = <<Ao, Bo>>
    /\ files[Tt] = 2 /\ files[Ao] = 2 /\ files[Bo] = 1
    /\ ~fr.out

(***************************************************************************)
(* The result list of the resolver run                                     *)
(***************************************************************************)
\* the positions of the result list that hold a rule with a recipe
RecipePositions(st) ==
    { k \in 1 .. Len(st.rlist) : rules[st.rlist[k].rule].func # 0 }

\* the rules the result list holds
ListedRules(st) == { st.rlist[k].rule : k \in 1 .. Len(st.rlist) }

\* C33: after a successful find_rules the result list holds at most one rule
\* with a recipe, whatever the order of declaration: a pattern rule that lost
\* to a shorter capture or to an exact rule is not in the list.
C33_OneRecipeInList ==
    (ResolveDone /\ fr.ret = 0) => Cardinality(RecipePositions(fr)) <= 1

\* C34: a rule without a recipe that matches the target, exactly or through
\* %, is in the result list of a successful find_rules, unless an exact rule
\* with a recipe was declared before it.
C34_DependOnlyRulesKept ==
    (ResolveDone /\ fr.ret = 0) =>
        \A i \in 1 .. Len(rules) :
            ( /\ rules[i].func = 0
              /\ \/ rules[i].target = frTarget
                 \/ ob_compare_subst(frTarget, rules[i].target) # << >>
              /\ \A j \in ExactRecipeRules(frTarget) : j > i )
                => i \in ListedRules(fr)

(***************************************************************************)
(* The alias run: recipes whose target has a dependency-only rule declared *)
(* before the rule with the body, a body that calls invoke, and a cs_state *)
(* in which target, source or sources already exists.                      *)
(***************************************************************************)
\* depend t b.c; rule t "a.o b.c" [invoke p; shell ..]; rule p a.c [..];
\* rule %.o %.c [..]
ScDependFirst ==
    Scenario(<< Rule(Tt, <<Bc>>, 0, FALSE), Rule(Tt, <<Ao, Bc>>, 6, FALSE),
                Rule(Pp, <<Ac>>, 1, FALSE), Rule(PatO, <<PatC>>, 3, FALSE) >>,
             <<Tt>>, (Ac :> 1) @@ (Bc :> 1))

\* the same without dependencies for p, and with the rules of t the other
\* way round
ScDependLast ==
    Scenario(<< Rule(Tt, <<Ao, Bc>>, 6, FALSE), Rule(Tt, <<Bc>>, 0, FALSE),
                Rule(Pp, << >>, 1, FALSE), Rule(PatO, <<PatC>>, 1, FALSE) >>,
             <<Tt>>, (Ac :> 1) @@ (Bc :> 1))

AliasScenarios == {ScDependFirst, ScDependLast}

\* what the definition file left in the three identifiers: nothing; a value
\* assigned to each (target = ..., an alias); or one of them made a variable
AliasTables ==
    {NoAliases, [a \in AliasNames |-> Ident(TRUE, <<Xx>>)]}
        \cup { [NoAliases EXCEPT ![a] = Ident(FALSE, << >>)] :
                    a \in AliasNames }

InitAlias ==
    /\ \E sc \in AliasScenarios :
        /\ rules = sc.rules
        /\ goal = sc.goal
        /\ files = FilesWith(sc.files)
    /\ aliases \in AliasTables
    /\ now = 2
    /\ cache = NoCache
    /\ counters = << >>
    /\ ctrs = << >>
    /\ stack = <<MainFrame>>
    /\ InitPool
    /\ frTarget = << >>
    /\ fr = FrStart(<< >>, 0)

NextAlias == Next \/ RecipeInvoke

SpecAlias == InitAlias /\ [][NextAlias]_vars

\* the current value of an alias (none: the alias has no value)
AliasValue(name) ==
    LET vals == aliases[name].vals IN
    IF vals = << >> THEN <<"none">> ELSE <<"value", vals[Len(vals)]>>

\* the dependencies of the rules of a result list, each with its rule's
\* capture in place of %, in list order
RECURSIVE AllSubDeps(_)
AllSubDeps(rl) ==
    IF rl = << >> THEN << >>
    ELSE LET deps == rules[rl[1].rule].deps IN
         [d \in 1 .. Len(deps) |-> SubstDep(deps[d], rl[1].sub)]
            \o AllSubDeps(Tail(rl))

\* a frame of the body that exec_func runs (exec_action binds no alias)
IsRecipeOfExecFunc(f) == f.fn = "recipe" /\ f.pushed # << >>

\* C36 (state): while the recipe of T runs, target is T and, when subdeps is
\* not empty, source is subdeps[0] and sources the subdeps joined by spaces,
\* where subdeps holds the substituted dependencies of all rules of the
\* result list of T in list order, duplicates kept
C36_Inv ==
    IsRecipeOfExecFunc(Top) =>
        /\ Top.subdeps = AllSubDeps(Top.rl)
        /\ AliasValue("target") = <<"value", Top.target>>
        /\ Top.subdeps # << >> =>
            /\ AliasValue("source") = <<"value", Top.subdeps[1]>>
            /\ AliasValue("sources") = <<"value", concat(Top.subdeps)>>

\* C36 (step): when exec_func returns, the identifiers have the values they
\* had when it was called
C36_Step ==
    (Top.fn \in {"exec_func", "recipe"} /\ Top.bar # 0
        /\ Len(stack') < Len(stack)) => aliases' = Top.entry

C37_SourceOfRecipeRule ==
    (IsRecipeOfExecFunc(Top) /\ rules[Top.rule].deps # << >>) =>
        AliasValue("source") =
            <<"value", SubstDep(rules[Top.rule].deps[1],
                                Top.rl[FirstFunc(Top.rl, rules, 1)].sub)>>

(***************************************************************************)
(* The script run: the definition file (or the -e string) calls shell      *)
(* itself, outside every rule body, before main calls exec_main.           *)
(***************************************************************************)
\* the statements of the definition file outside the rule bodies: one
\* shell command, which writes x
ScriptFrame ==
    [NoFrame EXCEPT !.fn = "recipe", !.pc = "incr", !.func = 1, !.k = 1,
                    !.target = Xx]

\* main: os.run_bool(fcont), os.run_file(deffile)
RunFile ==
    /\ Top.fn = "main" /\ Top.pc = "exec_main" /\ Top.k = 0
    /\ Top.runs = << >>
    /\ stack' = Push(SetTop(stack, [Top EXCEPT !.k = 1]), ScriptFrame)
    /\ UNCHANGED <<rules, resolveVars, aliases, goal, files, now, cache,
                   counters, ctrs, poolVars>>

\* shell ..; rule t a.o [..]; rule %.o %.c [..], where the command of a.o
\* may fail
ScScript ==
    Scenario(<< Rule(Tt, <<Ao>>, 1, FALSE), Rule(PatO, <<PatC>>, 3, FALSE) >>,
             <<Tt>>, (Ac :> 1))

InitScript == InitOf({ScScript})

NextScript == Next \/ RunFile

SpecScript == InitScript /\ [][NextScript]_vars

\* C31: whenever the shell command executes, the barrier stack is not empty
\* and its top is a live barrier, at every point where a script can call
\* shell, the evaluation of the definition file or of the -e string before
\* exec_main included.
C31_ShellHasBarrier ==
    (Top.fn = "recipe" /\ Top.pc = "incr"
        /\ Top.k <= RecipeOf(Top.func).shells) =>
            /\ counters # << >>
            /\ ctrs[counters[Len(counters)]].live

====
